---- MODULE Spec2Model ----
(***************************************************************************)
(* Model of the multi-perspective LLM ensemble: the staged LangGraph       *)
(* pipeline (graph/multi_perspective_ensemble_graph.py and                 *)
(* graph/multi_perspective_nodes.py), the run loggers (utils/memory.py),   *)
(* the command-line entry point (multi_perspective_main.py) and the        *)
(* progress channel (backend_websocket_server.py).                         *)
(*                                                                         *)
(* Texts are sequences of lines; a line is [tag, body], where tag is the   *)
(* token before the first ":" of the stripped line ("" when the line has   *)
(* no leading tag).  Confidences are in hundredths (0.5 is 50).            *)
(***************************************************************************)
EXTENDS Integers, Sequences, FiniteSets, TLC

\* ------------------------------------------------------------------ bounds
MaxRuns == 1
MaxFailures == 1
MaxMessages == 2
MaxLines == 3

\* --------------------------------------------------------------- constants
BaselineConfidence == 50
DefaultConfidence == 70

Models == {"claude", "gpt", "grok"}
Clients == {"c1", "c2"}

NodeOrder ==
  <<"baseline_analysis", "step1_economic", "step2_environmental",
    "step3_technological", "judge_evaluation", "performance_logging">>

Nodes == {NodeOrder[i] : i \in 1..Len(NodeOrder)}

NodeIndex(n) == CHOOSE i \in 1..Len(NodeOrder) : NodeOrder[i] = n

\* a graph whose step-2 edge leads back to step 1
NextNodeLoop(n) ==
  IF n = "step2_environmental" THEN "step1_economic"
  ELSE IF NodeIndex(n) = Len(NodeOrder) THEN "END"
  ELSE NodeOrder[NodeIndex(n) + 1]

NextNode(n) ==
  IF NodeIndex(n) = Len(NodeOrder) THEN "END" ELSE NodeOrder[NodeIndex(n) + 1]

StageFlags ==
  {"baselines_complete", "step1_complete", "step2_complete",
   "step3_complete", "judging_complete"}

AllFlags == StageFlags \cup {"logging_complete"}

\* ------------------------------------------------------------------- texts
L(tag, body) == [tag |-> tag, body |-> body]

T(s) == <<L("", s)>>

EmptyText == <<>>

BlankLine(l) == l.tag = "" /\ l.body = ""

RECURSIVE StripText(_)
StripText(t) ==
  IF t = <<>> THEN <<>>
  ELSE IF BlankLine(Head(t)) THEN StripText(Tail(t))
  ELSE IF BlankLine(t[Len(t)]) THEN StripText(SubSeq(t, 1, Len(t) - 1))
  ELSE t

\* the queries offered to the system: sequences of characters
Queries == {<<>>, <<" ">>, <<"a">>, <<" ", "a", " ">>}

RECURSIVE Strip(_)
Strip(q) ==
  IF q = <<>> THEN <<>>
  ELSE IF Head(q) = " " THEN Strip(Tail(q))
  ELSE IF q[Len(q)] = " " THEN Strip(SubSeq(q, 1, Len(q) - 1))
  ELSE q

\* validate_inputs without the strip
validate_inputs_unstripped(q) == q # <<>>

\* InputPackage.validate_inputs: TRUE when it returns, FALSE when it raises
validate_inputs(q) == Strip(q) # <<>>

\* EnhancedLLMEnsembleSystem.validate_inputs: the same test on the raw query
system_validate_inputs(q) == q # <<>> /\ Strip(q) # <<>>

SectionStopTags ==
  {"PERSPECTIVE_ANALYSIS", "REASONING", "CONFIDENCE", "ENVIRONMENTAL_ANALYSIS",
   "COMPARISON", "SYNTHESIS", "TECHNOLOGICAL_ANALYSIS", "COMPLETE_SYNTHESIS",
   "FINAL_CONFIDENCE"}

JudgeStopTags ==
  {"EVALUATION", "AGREEMENTS_DISAGREEMENTS", "BEST_INSIGHTS", "FINAL_SYNTHESIS",
   "CLAUDE_SCORE", "GPT_SCORE", "GROK_SCORE"}

RECURSIVE Capture(_, _, _, _, _)
Capture(lines, name, stops, capturing, acc) ==
  IF lines = <<>> THEN acc
  ELSE LET l == Head(lines) IN
    IF l.tag = name
      THEN Capture(Tail(lines), name, stops, TRUE, Append(acc, L("", l.body)))
    ELSE IF capturing /\ l.tag \in stops THEN acc
    ELSE IF capturing
      THEN Capture(Tail(lines), name, stops, TRUE, Append(acc, l))
    ELSE Capture(Tail(lines), name, stops, FALSE, acc)

_extract_section(content, section_name) ==
  StripText(Capture(content, section_name, SectionStopTags, FALSE, <<>>))

_extract_judge_section(content, section_name) ==
  StripText(Capture(content, section_name, JudgeStopTags, FALSE, <<>>))

\* float(): the literals the replies of this model use; anything else raises
FloatLiterals == {"0.9", "0.8", "1.5", "-0.2", "0.0", "nan"}

\* float("nan"): a value that is not a number; every comparison with it is
\* false
NaN == 0 - 99999

ParseFloat(s) ==
  CASE s = "0.9" -> 90
    [] s = "0.8" -> 80
    [] s = "1.5" -> 150
    [] s = "-0.2" -> -20
    [] s = "nan" -> NaN
    [] OTHER -> 0

\* a < b on floats
Less(a, b) == a # NaN /\ b # NaN /\ a < b

\* min(a, b): the first argument unless the second is smaller
Min(a, b) == IF Less(b, a) THEN b ELSE a

\* max(a, b): the first argument unless the second is larger
Max(a, b) == IF Less(a, b) THEN b ELSE a

_extract_confidence(content) ==
  LET idx == {i \in 1..Len(content) :
                content[i].tag \in {"CONFIDENCE", "FINAL_CONFIDENCE"}}
  IN IF idx = {} THEN DefaultConfidence
     ELSE LET i == CHOOSE j \in idx : \A k \in idx : j <= k
          IN IF content[i].body \in FloatLiterals
               THEN ParseFloat(content[i].body)
               ELSE DefaultConfidence

DefaultScore == 50

_extract_judge_score(content, score_name) ==
  LET idx == {i \in 1..Len(content) : content[i].tag = score_name}
  IN IF idx = {} THEN DefaultScore
     ELSE LET i == CHOOSE j \in idx : \A k \in idx : j <= k
          IN IF content[i].body \in FloatLiterals
               THEN Max(0, Min(100, ParseFloat(content[i].body)))
               ELSE DefaultScore

\* ------------------------------------------------------ backend replies
\* str(e) of the exception a failing backend call raises
ErrText == "boom"

\* what each backend answers when its call succeeds
BaselineReply(m) == T("answer")

Step1Reply(m) ==
  CASE m = "claude" ->
         <<L("PERSPECTIVE_ANALYSIS", "economic view"), L("REASONING", "because"),
           L("CONFIDENCE", "0.9")>>
    [] m = "gpt" ->
         <<L("PERSPECTIVE_ANALYSIS", "economic view"), L("", "more detail"),
           L("CONFIDENCE", "high")>>
    [] OTHER ->
         <<L("REASONING", "because"), L("PERSPECTIVE_ANALYSIS", "economic view"),
           L("CONFIDENCE", "0.8")>>

Step2Reply(m) == T("economic and environmental view")

Step3Reply(m) ==
  <<L("COMPREHENSIVE_SYNTHESIS", "full synthesis"),
    L("CONFIDENCE_ASSESSMENT", "fairly sure"),
    L("FINAL_CONFIDENCE", IF m = "gpt" THEN "1.5" ELSE "0.9")>>

JudgeStageReply == T("stage assessment")

JudgeFinalReply ==
  <<L("FINAL_EVALUATION", "evaluation"), L("AGREEMENTS_DISAGREEMENTS", "agreements"),
    L("BEST_INSIGHTS", "insights"), L("FINAL_SYNTHESIS", "final answer"),
    L("METHODOLOGY_ASSESSMENT", "methodology"), L("CLAUDE_SCORE", "0.9"),
    L("GPT_SCORE", "1.5"), L("GROK_SCORE", "n/a")>>

\* ------------------------------------------------------------ state types
NoBaseline == [present |-> FALSE, content |-> EmptyText, confidence |-> 0]

BaselineResponse(content, confidence) ==
  [present |-> TRUE, content |-> content, confidence |-> confidence]

NoPerspective ==
  [present |-> FALSE, content |-> EmptyText, reasoning |-> EmptyText, confidence |-> 0]

PerspectiveResponse(content, reasoning, confidence) ==
  [present |-> TRUE, content |-> content, reasoning |-> reasoning,
   confidence |-> confidence]

NoAnalysis ==
  [present |-> FALSE, step1_economic |-> NoPerspective,
   step2_economic_environmental |-> EmptyText,
   step3_complete_synthesis |-> EmptyText, final_confidence |-> 0,
   reasoning_evolution |-> <<>>]

MultiPerspectiveAnalysis(step1, evolution) ==
  [present |-> TRUE, step1_economic |-> step1,
   step2_economic_environmental |-> EmptyText,
   step3_complete_synthesis |-> EmptyText, final_confidence |-> 0,
   reasoning_evolution |-> evolution]

JudgeStages == {"initial", "step1", "step2", "step3"}

NoScores == [m \in Models |-> -1]

MultiPerspectiveEnsembleState ==
  [baseline |-> [m \in Models |-> NoBaseline],
   analysis |-> [m \in Models |-> NoAnalysis],
   judge_assessment |-> [s \in JudgeStages |-> EmptyText],
   judge_analysis |-> EmptyText,
   agreements_disagreements |-> EmptyText,
   best_insights |-> EmptyText,
   final_synthesis |-> EmptyText,
   methodology_assessment |-> EmptyText,
   quality_scores |-> NoScores,
   flags |-> {}]

\* a gather result: exc says the awaitable raised (gather returns the exception)
NoGather == [exc |-> FALSE, content |-> EmptyText, reasoning |-> EmptyText,
             confidence |-> 0]

Gathered(content, reasoning, confidence) ==
  [exc |-> FALSE, content |-> content, reasoning |-> reasoning,
   confidence |-> confidence]

GatheredException == [NoGather EXCEPT !.exc = TRUE]

NoResults == [m \in Models |-> NoGather]

NoneRaised == [n \in Nodes |-> {}]

NotEntered == [n \in Nodes |-> 0]

VARIABLES
  entry,       \* what runs: "main" (command line), "real" or "demo" (backend
               \* server with or without the graph), "frontend", "simple"
  runs,        \* runs started so far
  query,       \* the query of the current run, as passed to the graph
  pc,          \* position of process_multi_perspective_query
  node,        \* the graph node being executed
  phase,       \* position inside the node
  pending,     \* backends whose call of this node has not resolved
  results,     \* the node's gather results, per backend
  raised,      \* per node of this run, whose call raised (backends, "judge")
  st,          \* the graph state (MultiPerspectiveEnsembleState)
  result,      \* what process_multi_perspective_query returned
  entered,     \* how often each node was entered in this run
  calls,       \* backend and judge calls issued in this run
  failures,    \* backend and judge calls that raised in this run
  elapsed,     \* time.time() - start_time
  nodeMemory,  \* MultiPerspectiveNodes.memory_logger.memory
  nodeFile,    \* ensemble_memory.json
  sysMemory,   \* EnhancedLLMEnsembleSystem.memory_logger.memory
  sysFile,     \* multi_perspective_memory.json
  peerMemory,  \* the memory of a second MemoryLogger on ensemble_memory.json
  peerRuns,    \* runs the second logger's process has logged
  sample,      \* the argument a parsing or metric function is applied to
  applied,     \* the function applied to the sample, and its tag argument
  out,         \* what the function returned
  package,     \* the arguments of a run and the InputPackage made of them
  prompts,     \* per stage, what the prompts of its adapters are built from
  iteration,   \* the dict iteration of a running broadcast_to_all
  agent_responses, \* self.agent_responses of the first frontend server class
  handlers,    \* per client, the position of its handler in a frontend run
  inbox,       \* the requester's messages that arrived and are not yet read
  sPc,         \* position of the server's handler of the requesting client
  nIdx,        \* index of the narration stage of provide_enhanced_updates
  connected,   \* connected_clients (self.clients in the frontend server)
  sent,        \* per client, the events delivered to it for the current command
  sock,        \* per client, its connection: "new", "open", "closed", "gone"
  client_info, \* the keys of client_info
  cots,        \* whether the command's perspectiveCots is a JSON object
  handled,     \* messages other than start_analysis handled since the last one
  lastMsg,     \* the kind of the last message the requester's handler took
  fault,       \* the functions an exception has propagated out of
  audience     \* the clients connected without interruption since the command

vars ==
  <<entry, runs, query, pc, node, phase, pending, results, raised, st, result,
    entered, calls, failures, elapsed, nodeMemory, nodeFile, sysMemory, sysFile,
    peerMemory, peerRuns, sample, applied, out, package, prompts,
    iteration, agent_responses, handlers, inbox,
    sPc, nIdx, connected, sent, sock, client_info, cots, handled, lastMsg,
    fault, audience>>

graphVars == <<node, phase, pending, results, raised, st, entered>>

logVars == <<nodeMemory, nodeFile, sysMemory, sysFile>>

peerVars == <<peerMemory, peerRuns>>

sharedVars == <<iteration, agent_responses, handlers, inbox>>

pureVars == <<sample, applied, out, package, prompts, sharedVars>>

connVars == <<sock, client_info, cots, handled, lastMsg, fault, audience>>

serverVars ==
  <<sPc, nIdx, connected, sent, sock, client_info, cots, handled, lastMsg,
    fault, audience>>

\* ------------------------------------------------------------- adapters
\* a baseline adapter whose error branch keeps the nominal confidence
_get_baseline_nominal(m, ok) ==
  IF ok THEN Gathered(BaselineReply(m), EmptyText, BaselineConfidence)
  ELSE Gathered(T("Error: boom"), EmptyText, BaselineConfidence)

\* _get_baseline_claude/_gpt/_grok: ok is whether the backend call returned
_get_baseline(m, ok) ==
  IF ok THEN Gathered(BaselineReply(m), EmptyText, BaselineConfidence)
  ELSE Gathered(T("Error: boom"), EmptyText, 0)

\* a step-1 adapter without its try/except: the exception reaches gather
_analyze_perspective_uncaught(m, ok) ==
  IF ok
    THEN Gathered(_extract_section(Step1Reply(m), "PERSPECTIVE_ANALYSIS"),
                  _extract_section(Step1Reply(m), "REASONING"),
                  _extract_confidence(Step1Reply(m)))
    ELSE GatheredException

\* _analyze_perspective_claude/_gpt/_grok
_analyze_perspective(m, ok) ==
  IF ok
    THEN Gathered(_extract_section(Step1Reply(m), "PERSPECTIVE_ANALYSIS"),
                  _extract_section(Step1Reply(m), "REASONING"),
                  _extract_confidence(Step1Reply(m)))
    ELSE Gathered(T("Error: boom"), T("Error occurred"), 0)

\* _step2_analysis_*: the early return that issues no call
Step2HasContext(state, m) ==
  state.analysis[m].present /\ state.analysis[m].step1_economic.present

Step2NoContext == Gathered(T("No economic analysis available for comparison"),
                           EmptyText, 0)

_step2_analysis(m, ok) ==
  IF ok THEN Gathered(Step2Reply(m), EmptyText, 0)
  ELSE Gathered(T("Error in Step 2 analysis: boom"), EmptyText, 0)

\* _step3_synthesis_claude/_gpt/_grok
_step3_synthesis(m, ok) ==
  IF ok
    THEN Gathered(_extract_section(Step3Reply(m), "COMPREHENSIVE_SYNTHESIS"),
                  EmptyText, _extract_confidence(Step3Reply(m)))
    ELSE Gathered(T("Error in final synthesis: boom"), EmptyText, 0)

Adapter(n, m, ok) ==
  CASE n = "baseline_analysis" -> _get_baseline(m, ok)
    [] n = "step1_economic" -> _analyze_perspective(m, ok)
    [] n = "step2_environmental" -> _step2_analysis(m, ok)
    [] OTHER -> _step3_synthesis(m, ok)

\* the earlier outputs an adapter quotes in the prompt it sends to backend m
\* a step 2 adapter that quotes Claude's step 1 analysis to every backend
step2_context_of_claude(state, m) ==
  <<state.analysis["claude"].step1_economic.content>>

\* _step2_analysis_*: previous_analysis is the backend's own step 1 content
step2_context(state, m) == <<state.analysis[m].step1_economic.content>>

\* _step3_synthesis_*: economic_analysis and environmental_analysis are the
\* backend's own step 1 content and step 2 text, "" when it has none
step3_context(state, m) ==
  <<IF state.analysis[m].present /\ state.analysis[m].step1_economic.present
      THEN state.analysis[m].step1_economic.content ELSE EmptyText,
    IF state.analysis[m].present
      THEN state.analysis[m].step2_economic_environmental ELSE EmptyText>>

\* the prompts of a node's three adapters: whether one is sent to the
\* backend, and the earlier outputs quoted in it
StagePrompts(n, state) ==
  [node |-> n,
   to |-> [m \in Models |->
     CASE n = "step2_environmental" ->
            IF Step2HasContext(state, m)
              THEN [issued |-> TRUE, context |-> step2_context(state, m)]
              ELSE [issued |-> FALSE, context |-> <<>>]
       [] n = "step3_technological" ->
            [issued |-> TRUE, context |-> step3_context(state, m)]
       [] OTHER -> [issued |-> TRUE, context |-> <<>>]]]

\* --------------------------------------------- node updates (return value)
\* baseline_analysis_node: the updates dict, merged into the state
baseline_updates(state, res, judgeOk) ==
  [state EXCEPT
     !.flags = @ \cup {"baselines_complete"},
     !.baseline = [m \in Models |->
        IF ~res[m].exc
          THEN BaselineResponse(res[m].content, res[m].confidence)
          ELSE @[m]],
     !.judge_assessment["initial"] =
        IF judgeOk THEN JudgeStageReply
        ELSE T("Error in initial judge assessment: boom")]

\* step1_economic_analysis_node
step1_updates(state, res, judgeOk) ==
  [state EXCEPT
     !.flags = @ \cup {"step1_complete"},
     !.analysis = [m \in Models |->
        IF ~res[m].exc
          THEN MultiPerspectiveAnalysis(
                 PerspectiveResponse(res[m].content, res[m].reasoning,
                                     res[m].confidence),
                 <<"Step 1: Economic analysis completed">>)
          ELSE @[m]],
     !.judge_assessment["step1"] =
        IF judgeOk THEN JudgeStageReply
        ELSE T("Error in Step 1 judge assessment: boom")]

\* a step 2 node that stores the first gather result in every backend's slot
step2_updates_crossed(state, res, judgeOk) ==
  [state EXCEPT
     !.flags = @ \cup {"step2_complete"},
     !.analysis = [m \in Models |->
        IF ~res[m].exc /\ @[m].present
          THEN [@[m] EXCEPT
                  !.step2_economic_environmental = res["claude"].content,
                  !.reasoning_evolution =
                     Append(@, "Step 2: Environmental comparison completed")]
          ELSE @[m]],
     !.judge_assessment["step2"] =
        IF judgeOk THEN JudgeStageReply
        ELSE T("Error in Step 2 judge assessment: boom")]

\* step2_environmental_analysis_node
step2_updates(state, res, judgeOk) ==
  [state EXCEPT
     !.flags = @ \cup {"step2_complete"},
     !.analysis = [m \in Models |->
        IF ~res[m].exc /\ @[m].present
          THEN [@[m] EXCEPT
                  !.step2_economic_environmental = res[m].content,
                  !.reasoning_evolution =
                     Append(@, "Step 2: Environmental comparison completed")]
          ELSE @[m]],
     !.judge_assessment["step2"] =
        IF judgeOk THEN JudgeStageReply
        ELSE T("Error in Step 2 judge assessment: boom")]

\* a step 3 node that starts the reasoning_evolution log afresh
step3_updates_relog(state, res, judgeOk) ==
  [state EXCEPT
     !.flags = @ \cup {"step3_complete"},
     !.analysis = [m \in Models |->
        IF ~res[m].exc /\ @[m].present
          THEN [@[m] EXCEPT
                  !.step3_complete_synthesis = res[m].content,
                  !.final_confidence = res[m].confidence,
                  !.reasoning_evolution =
                     <<"Step 3: Complete synthesis with technological perspective">>]
          ELSE @[m]],
     !.judge_assessment["step3"] =
        IF judgeOk THEN JudgeStageReply
        ELSE T("Error in Step 3 judge assessment: boom")]

\* step3_technological_synthesis_node
step3_updates(state, res, judgeOk) ==
  [state EXCEPT
     !.flags = @ \cup {"step3_complete"},
     !.analysis = [m \in Models |->
        IF ~res[m].exc /\ @[m].present
          THEN [@[m] EXCEPT
                  !.step3_complete_synthesis = res[m].content,
                  !.final_confidence = res[m].confidence,
                  !.reasoning_evolution =
                     Append(@, "Step 3: Complete synthesis with technological perspective")]
          ELSE @[m]],
     !.judge_assessment["step3"] =
        IF judgeOk THEN JudgeStageReply
        ELSE T("Error in Step 3 judge assessment: boom")]

StageUpdates(n, state, res, judgeOk) ==
  CASE n = "baseline_analysis" -> baseline_updates(state, res, judgeOk)
    [] n = "step1_economic" -> step1_updates(state, res, judgeOk)
    [] n = "step2_environmental" -> step2_updates(state, res, judgeOk)
    [] OTHER -> step3_updates(state, res, judgeOk)

ScoreTag(m) ==
  CASE m = "claude" -> "CLAUDE_SCORE"
    [] m = "gpt" -> "GPT_SCORE"
    [] OTHER -> "GROK_SCORE"

\* a judge node whose except branch forgets judging_complete
judge_evaluation_updates_noflag(state, judgeOk) ==
  IF judgeOk
    THEN [state EXCEPT
            !.judge_analysis = _extract_judge_section(JudgeFinalReply, "FINAL_EVALUATION"),
            !.final_synthesis = _extract_judge_section(JudgeFinalReply, "FINAL_SYNTHESIS"),
            !.quality_scores =
               [m \in Models |-> _extract_judge_score(JudgeFinalReply, ScoreTag(m))],
            !.flags = @ \cup {"judging_complete"}]
    ELSE [state EXCEPT
            !.judge_analysis = T("Error in judge evaluation: boom"),
            !.final_synthesis = T("Unable to complete judge evaluation")]

\* judge_evaluation_node
judge_evaluation_updates(state, judgeOk) ==
  IF judgeOk
    THEN [state EXCEPT
            !.judge_analysis = _extract_judge_section(JudgeFinalReply, "FINAL_EVALUATION"),
            !.agreements_disagreements =
               _extract_judge_section(JudgeFinalReply, "AGREEMENTS_DISAGREEMENTS"),
            !.best_insights = _extract_judge_section(JudgeFinalReply, "BEST_INSIGHTS"),
            !.final_synthesis = _extract_judge_section(JudgeFinalReply, "FINAL_SYNTHESIS"),
            !.methodology_assessment =
               _extract_judge_section(JudgeFinalReply, "METHODOLOGY_ASSESSMENT"),
            !.quality_scores =
               [m \in Models |-> _extract_judge_score(JudgeFinalReply, ScoreTag(m))],
            !.flags = @ \cup {"judging_complete"}]
    ELSE [state EXCEPT
            !.judge_analysis = T("Error in judge evaluation: boom"),
            !.final_synthesis = T("Unable to complete judge evaluation"),
            !.flags = @ \cup {"judging_complete"}]

\* performance_logging_node: the state update it returns
performance_logging_updates(state) ==
  [state EXCEPT !.flags = @ \cup {"logging_complete"}]

\* ------------------------------------------------------------ run logger
\* the record log_result builds from a result dict (result.get with defaults);
\* stamp stands for the timestamp
LogRecord(q, synthesis, analysis, iterations, stamp) ==
  [query |-> q, final_synthesis |-> synthesis, judge_analysis |-> analysis,
   total_iterations |-> iterations, timestamp |-> stamp]

\* a logger that keeps only the newest record
log_result_overwrite(memory, record) == <<record>>

\* MemoryLogger.log_result: memory.append(result_dict)
log_result(memory, record) == Append(memory, record)

\* MemoryLogger._save_memory: the whole list replaces the file
_save_memory(memory) == memory

\* the comprehensive_result performance_logging_node hands to log_result
comprehensive_result(state, q, stamp) ==
  LogRecord(q, state.final_synthesis, state.judge_analysis, 3, stamp)

\* ------------------------------------------------------------- run result
ErrorKeys == {"query", "error", "processing_time", "completion_status"}

ResultKeys ==
  {"query", "input_package", "baseline_responses", "multi_perspective_analyses",
   "judge_evaluation", "performance_comparison", "processing_time",
   "completion_status"}

NoResult ==
  [kind |-> "none", keys |-> {}, error |-> "", query |-> <<>>,
   completion_status |-> {}, processing_time |-> 0,
   baseline_responses |-> [m \in Models |-> NoBaseline],
   multi_perspective_analyses |-> [m \in Models |-> NoAnalysis],
   judge_evaluation |-> MultiPerspectiveEnsembleState]

\* process_multi_perspective_query: the except branch of input validation
ValidationErrorResult(q, time) ==
  [NoResult EXCEPT !.kind = "error",
                   !.keys = {"error", "query", "processing_time"},
                   !.error = "Input validation failed: Query is required",
                   !.query = q, !.processing_time = time]

\* an except branch that reports no elapsed time
GraphErrorResultNoTime(q, time) ==
  [NoResult EXCEPT !.kind = "error", !.keys = ErrorKeys, !.error = ErrText,
                   !.query = q, !.processing_time = 0]

\* process_multi_perspective_query: the except branch around graph.ainvoke
GraphErrorResult(q, time) ==
  [NoResult EXCEPT !.kind = "error", !.keys = ErrorKeys, !.error = ErrText,
                   !.query = q, !.processing_time = time]

\* process_multi_perspective_query: the result dict of the success path
\* (completion_status holds the flags that are True)
RunResult(q, final_state, time) ==
  [kind |-> "result", keys |-> ResultKeys, error |-> "", query |-> q,
   completion_status |-> final_state.flags,
   processing_time |-> time,
   baseline_responses |-> [m \in Models |->
      IF final_state.baseline[m].present THEN final_state.baseline[m]
      ELSE [NoBaseline EXCEPT !.present = TRUE]],
   multi_perspective_analyses |-> [m \in Models |->
      IF final_state.analysis[m].present THEN final_state.analysis[m]
      ELSE [NoAnalysis EXCEPT !.present = TRUE]],
   judge_evaluation |-> final_state]

\* EnhancedLLMEnsembleSystem.process_multi_perspective_query: its except branch
SystemErrorResult(q) ==
  [NoResult EXCEPT !.kind = "error", !.keys = ErrorKeys,
                   !.error = "Query is required and cannot be empty",
                   !.query = q, !.processing_time = 0]

\* ------------------------------------------------------------------ events
Ev(type, step, agent) ==
  [type |-> type, step |-> step, agent |-> agent, text |-> ""]

\* an event that carries a message or an identifier
EvText(type, text) == [type |-> type, step |-> 0, agent |-> "", text |-> text]

ProgressTypes ==
  {"step_complete", "agent_update", "judge_assessment", "baseline_response",
   "multi_perspective_update", "analysis_complete"}

AgentOrder == <<"claude", "gpt", "grok">>

Requester == "c1"

\* the connections websocket.send succeeds on
OpenSockets == {c \in Clients : sock[c] = "open"}

\* a send that reaches the client whatever the state of its connection
send_to_client_unchecked(log, c, conn, evs) ==
  [x \in Clients |-> IF x = c THEN log[x] \o evs ELSE log[x]]

\* send_to_client: the event reaches the client when its connection is open;
\* ConnectionClosed is caught and logged
send_to_client(log, c, conn, evs) ==
  [x \in Clients |-> IF x = c /\ c \in conn THEN log[x] \o evs ELSE log[x]]

\* a broadcast that reaches the requesting client only
broadcast_to_requester(log, conn, evs) ==
  [x \in Clients |->
     IF x = Requester /\ x \in conn /\ x \in OpenSockets
       THEN log[x] \o evs ELSE log[x]]

\* broadcast_to_all: every registered client with an open connection gets the
\* event
broadcast_to_all(log, conn, evs) ==
  [x \in Clients |->
     IF x \in conn /\ x \in OpenSockets THEN log[x] \o evs ELSE log[x]]

\* broadcast_to_all: the clients whose send failed leave the registry
broadcast_registry(conn) == conn \cap OpenSockets

\* -------------------------------------------------------------- initial
\* no function has been applied and no prompt has been built
NoSample == [text |-> <<>>, baseline |-> 0, synthesis |-> 0]

NoOut == [text |-> <<>>, number |-> 0]

NoPackage == [made |-> FALSE]

NoPrompts == <<>>

\* no broadcast is running and no frontend run has started
NoIteration ==
  [at |-> "idle", calls |-> 0, message |-> Ev("", 0, ""), entries |-> <<>>,
   used |-> 0, pos |-> 0, to |-> "-", disconnected |-> {}, start |-> {},
   changed |-> FALSE]

NoResponses == [a \in {"claude", "gpt", "grok", "judge"} |-> <<>>]

SharedIdle ==
  /\ iteration = NoIteration
  /\ agent_responses = NoResponses
  /\ handlers = [c \in Clients |-> [at |-> "idle", item |-> 0, runs |-> 0]]
  /\ inbox = <<>>

PureIdle ==
  /\ sample = NoSample
  /\ applied = [function |-> "none", tag |-> ""]
  /\ out = NoOut
  /\ package = NoPackage
  /\ prompts = NoPrompts
  /\ SharedIdle

Init ==
  /\ entry \in {"main", "real", "demo"}
  /\ runs = 0
  /\ query = <<>>
  /\ pc = "idle"
  /\ node = "none"
  /\ phase = "none"
  /\ pending = {}
  /\ results = NoResults
  /\ raised = NoneRaised
  /\ st = MultiPerspectiveEnsembleState
  /\ result = NoResult
  /\ entered = NotEntered
  /\ calls = 0
  /\ failures = 0
  /\ elapsed = 0
  /\ nodeMemory = <<>>
  /\ nodeFile = <<>>
  /\ sysMemory = <<>>
  /\ sysFile = <<>>
  /\ peerMemory = <<>>
  /\ peerRuns = 0
  /\ PureIdle
  /\ sPc = "idle"
  /\ nIdx = 0
  /\ connected \in {{"c1"}, {"c1", "c2"}}
  /\ sent = [c \in Clients |-> <<>>]
  /\ sock = [c \in Clients |-> IF c \in connected THEN "open" ELSE "new"]
  /\ client_info = connected
  /\ cots = TRUE
  /\ handled = 0
  /\ lastMsg = "none"
  /\ fault = {}
  /\ audience = {}

\* the per-run bookkeeping starts afresh with every command
ResetRun ==
  /\ node' = "none"
  /\ phase' = "none"
  /\ pending' = {}
  /\ results' = NoResults
  /\ raised' = NoneRaised
  /\ st' = MultiPerspectiveEnsembleState
  /\ entered' = NotEntered
  /\ calls' = 0
  /\ elapsed' = 0
  /\ prompts' = NoPrompts

\* ------------------------------------------------ the graph (orchestrator)
\* validate_and_prepare_inputs inside process_multi_perspective_query
GraphValidate ==
  /\ pc = "called"
  /\ IF ~validate_inputs(query)
       THEN /\ result' = ValidationErrorResult(query, elapsed)
            /\ pc' = "returned"
            /\ UNCHANGED <<node, phase, st>>
       ELSE /\ pc' = "graph"
            /\ node' = NodeOrder[1]
            /\ phase' = "enter"
            /\ st' = MultiPerspectiveEnsembleState
            /\ UNCHANGED result
  /\ UNCHANGED <<entry, runs, query, pending, results, raised, entered, calls,
                 failures, elapsed>>
  /\ UNCHANGED logVars
  /\ UNCHANGED peerVars
  /\ UNCHANGED pureVars
  /\ UNCHANGED serverVars

ModelNodes ==
  {"baseline_analysis", "step1_economic", "step2_environmental",
   "step3_technological"}

\* which backends a node's gather issues a call to
Callers(n, state) ==
  IF n = "step2_environmental"
    THEN {m \in Models : Step2HasContext(state, m)}
    ELSE Models

\* a model node starts: its tasks are created and their calls issued
EnterModelNode ==
  /\ pc = "graph" /\ phase = "enter" /\ node \in ModelNodes
  /\ entered' = [entered EXCEPT ![node] = @ + 1]
  /\ pending' = Callers(node, st)
  /\ results' = [m \in Models |->
                   IF m \in Callers(node, st) THEN NoGather ELSE Step2NoContext]
  /\ calls' = calls + Cardinality(Callers(node, st))
  /\ phase' = "models"
  /\ elapsed' = elapsed + 1
  /\ prompts' = Append(prompts, StagePrompts(node, st))
  /\ UNCHANGED <<entry, runs, query, pc, node, raised, st, result, failures>>
  /\ UNCHANGED logVars
  /\ UNCHANGED peerVars
  /\ UNCHANGED <<sample, applied, out, package, sharedVars>>
  /\ UNCHANGED serverVars

\* one backend call of the gather resolves: it returns (ok) or raises
AdapterReturn(m, ok) ==
  /\ pc = "graph" /\ phase = "models" /\ m \in pending
  /\ ok \/ failures < MaxFailures
  /\ results' = [results EXCEPT ![m] = Adapter(node, m, ok)]
  /\ pending' = pending \ {m}
  /\ raised' = IF ok THEN raised ELSE [raised EXCEPT ![node] = @ \cup {m}]
  /\ failures' = IF ok THEN failures ELSE failures + 1
  /\ UNCHANGED <<entry, runs, query, pc, node, phase, st, result, entered, calls,
                 elapsed>>
  /\ UNCHANGED logVars
  /\ UNCHANGED peerVars
  /\ UNCHANGED pureVars
  /\ UNCHANGED serverVars

\* gather is complete: the node issues its judge call
IssueStageJudge ==
  /\ pc = "graph" /\ phase = "models" /\ pending = {}
  /\ phase' = "judge"
  /\ calls' = calls + 1
  /\ elapsed' = elapsed + 1
  /\ UNCHANGED <<entry, runs, query, pc, node, pending, results, raised, st,
                 result, entered, failures>>
  /\ UNCHANGED logVars
  /\ UNCHANGED peerVars
  /\ UNCHANGED pureVars
  /\ UNCHANGED serverVars

\* the judge call resolves, the node returns its updates, the graph merges
\* them into the state and moves along the node's edge
StageJudgeReturn(ok) ==
  /\ pc = "graph" /\ phase = "judge" /\ node \in ModelNodes
  /\ ok \/ failures < MaxFailures
  /\ st' = StageUpdates(node, st, results, ok)
  /\ raised' = IF ok THEN raised ELSE [raised EXCEPT ![node] = @ \cup {"judge"}]
  /\ failures' = IF ok THEN failures ELSE failures + 1
  /\ node' = NextNode(node)
  /\ phase' = "enter"
  /\ elapsed' = elapsed + 1
  /\ UNCHANGED <<entry, runs, query, pc, pending, results, result, entered, calls>>
  /\ UNCHANGED logVars
  /\ UNCHANGED peerVars
  /\ UNCHANGED pureVars
  /\ UNCHANGED serverVars

\* judge_evaluation_node starts: the comprehensive prompt is sent to the judge
EnterJudgeEvaluation ==
  /\ pc = "graph" /\ phase = "enter" /\ node = "judge_evaluation"
  /\ entered' = [entered EXCEPT ![node] = @ + 1]
  /\ calls' = calls + 1
  /\ phase' = "judge"
  /\ elapsed' = elapsed + 1
  /\ UNCHANGED <<entry, runs, query, pc, node, pending, results, raised, st,
                 result, failures>>
  /\ UNCHANGED logVars
  /\ UNCHANGED peerVars
  /\ UNCHANGED pureVars
  /\ UNCHANGED serverVars

JudgeEvaluationReturn(ok) ==
  /\ pc = "graph" /\ phase = "judge" /\ node = "judge_evaluation"
  /\ ok \/ failures < MaxFailures
  /\ st' = judge_evaluation_updates(st, ok)
  /\ raised' = IF ok THEN raised ELSE [raised EXCEPT ![node] = @ \cup {"judge"}]
  /\ failures' = IF ok THEN failures ELSE failures + 1
  /\ node' = NextNode(node)
  /\ phase' = "enter"
  /\ elapsed' = elapsed + 1
  /\ UNCHANGED <<entry, runs, query, pc, pending, results, result, entered, calls>>
  /\ UNCHANGED logVars
  /\ UNCHANGED peerVars
  /\ UNCHANGED pureVars
  /\ UNCHANGED serverVars

\* performance_logging_node: metrics, log_result, the returned update
PerformanceLogging ==
  /\ pc = "graph" /\ phase = "enter" /\ node = "performance_logging"
  /\ entered' = [entered EXCEPT ![node] = @ + 1]
  /\ nodeMemory' = log_result(nodeMemory, comprehensive_result(st, query, runs))
  /\ nodeFile' = _save_memory(nodeMemory')
  /\ st' = performance_logging_updates(st)
  /\ node' = NextNode(node)
  /\ phase' = "none"
  /\ elapsed' = elapsed + 1
  /\ UNCHANGED <<entry, runs, query, pc, pending, results, raised, result, calls,
                 failures, sysMemory, sysFile>>
  /\ UNCHANGED peerVars
  /\ UNCHANGED pureVars
  /\ UNCHANGED serverVars

\* graph.ainvoke returned: the result dict is prepared and returned
BuildResult ==
  /\ pc = "graph" /\ node = "END"
  /\ result' = RunResult(query, st, elapsed)
  /\ pc' = "returned"
  /\ UNCHANGED <<entry, runs, query, failures, calls, elapsed>>
  /\ UNCHANGED graphVars
  /\ UNCHANGED logVars
  /\ UNCHANGED peerVars
  /\ UNCHANGED pureVars
  /\ UNCHANGED serverVars

\* an exception escapes the node about to run (not a backend call of its
\* gather): graph.ainvoke raises and the except branch returns the error dict
NodeException ==
  /\ pc = "graph" /\ phase = "enter" /\ node \in Nodes
  /\ failures < MaxFailures
  /\ failures' = failures + 1
  /\ result' = GraphErrorResult(query, elapsed)
  /\ pc' = "returned"
  /\ UNCHANGED <<entry, runs, query, calls, elapsed>>
  /\ UNCHANGED graphVars
  /\ UNCHANGED logVars
  /\ UNCHANGED peerVars
  /\ UNCHANGED pureVars
  /\ UNCHANGED serverVars

\* ------------------------------------- command line (multi_perspective_main)
\* EnhancedLLMEnsembleSystem.process_multi_perspective_query up to the await:
\* validate_inputs raises on an empty query, else the graph is called with the
\* stripped query
MainProcess(q) ==
  /\ entry = "main" /\ pc = "idle" /\ runs < MaxRuns
  /\ runs' = runs + 1
  /\ ResetRun
  /\ IF ~system_validate_inputs(q)
       THEN /\ query' = q
            /\ result' = SystemErrorResult(q)
            /\ pc' = "idle"
       ELSE /\ query' = Strip(q)
            /\ result' = NoResult
            /\ pc' = "called"
  /\ UNCHANGED <<entry, failures>>
  /\ UNCHANGED logVars
  /\ UNCHANGED peerVars
  /\ UNCHANGED <<sample, applied, out, package, sharedVars>>
  /\ UNCHANGED serverVars

\* ... after the await: self.memory_logger.log_result(result); return result
MainLog ==
  /\ entry = "main" /\ pc = "returned"
  /\ sysMemory' = log_result(sysMemory,
                    LogRecord(result.query, EmptyText, EmptyText, 0, runs))
  /\ sysFile' = _save_memory(sysMemory')
  /\ pc' = "idle"
  /\ UNCHANGED <<entry, runs, query, result, calls, failures, elapsed, nodeMemory,
                 nodeFile>>
  /\ UNCHANGED peerVars
  /\ UNCHANGED pureVars
  /\ UNCHANGED graphVars
  /\ UNCHANGED serverVars

\* ------------------------------------ progress channel (websocket server)
PerAgent(type, step) ==
  <<Ev(type, step, AgentOrder[1]), Ev(type, step, AgentOrder[2]),
    Ev(type, step, AgentOrder[3])>>

\* handle_start_analysis: analysis_started, then the real or the demo run
StartAnalysis(q, k) ==
  /\ entry \in {"real", "demo"} /\ sPc = "idle" /\ pc = "idle" /\ runs < MaxRuns
  /\ sock[Requester] = "open"
  /\ runs' = runs + 1
  /\ ResetRun
  /\ query' = q
  /\ result' = NoResult
  /\ pc' = "idle"
  /\ sent' = send_to_client([c \in Clients |-> <<>>], Requester, OpenSockets,
                            <<Ev("analysis_started", 0, "")>>)
  /\ sPc' = IF entry = "real" THEN "real" ELSE "demo"
  /\ nIdx' = 1
  /\ cots' = k
  /\ lastMsg' = "start"
  /\ handled' = 0
  /\ audience' = connected \cap OpenSockets
  /\ UNCHANGED <<entry, failures, connected, sock, client_info, fault>>
  /\ UNCHANGED logVars
  /\ UNCHANGED peerVars
  /\ UNCHANGED <<sample, applied, out, package>>

handle_start_analysis(q, k) == StartAnalysis(q, k) /\ UNCHANGED sharedVars

\* run_real_analysis up to provide_enhanced_updates: step 1, the three
\* "thinking" updates, and the pipeline task is created
run_real_analysis_start ==
  /\ sPc = "real" /\ cots
  /\ sent' = send_to_client(sent, Requester, OpenSockets,
               <<Ev("step_complete", 1, "")>> \o PerAgent("agent_update", 1))
  /\ pc' = "called"
  /\ sPc' = "narrate"
  /\ nIdx' = 1
  /\ UNCHANGED <<entry, runs, query, result, calls, failures, elapsed, connected>>
  /\ UNCHANGED connVars
  /\ UNCHANGED graphVars
  /\ UNCHANGED logVars
  /\ UNCHANGED peerVars
  /\ UNCHANGED pureVars

\* run_real_analysis when perspective_cots.get raises (perspectiveCots is not
\* an object): the except branch sends the error event and falls back to the
\* simulation
run_real_analysis_fallback ==
  /\ sPc = "real" /\ ~cots
  /\ sent' = send_to_client(sent, Requester, OpenSockets,
               <<Ev("step_complete", 1, "")>> \o PerAgent("agent_update", 1)
               \o <<EvText("error", "Real analysis failed")>>)
  /\ sPc' = "demo"
  /\ nIdx' = 1
  /\ UNCHANGED <<entry, runs, query, pc, result, calls, failures, elapsed,
                 connected>>
  /\ UNCHANGED connVars
  /\ UNCHANGED graphVars
  /\ UNCHANGED logVars
  /\ UNCHANGED peerVars
  /\ UNCHANGED pureVars

TaskDone == pc = "returned"

NarrationStages == 5

\* what provide_enhanced_updates sends for stage i of its table
NarrationEvents(i) ==
  <<Ev("step_complete", i, "")>>
  \o (IF i # NarrationStages THEN <<Ev("judge_assessment", i, "")>> ELSE <<>>)
  \o (IF i # NarrationStages THEN PerAgent("agent_update", i)
      ELSE <<Ev("agent_update", i, "judge")>>)

\* provide_enhanced_updates: top of the loop and the sends of one stage
Narrate ==
  /\ sPc = "narrate"
  /\ IF TaskDone
       THEN /\ sPc' = "after_loop"
            /\ UNCHANGED sent
       ELSE /\ sent' = send_to_client(sent, Requester, OpenSockets,
                                      NarrationEvents(nIdx))
            /\ sPc' = "wait"
  /\ UNCHANGED <<entry, runs, query, pc, result, calls, failures, elapsed, nIdx,
                 connected>>
  /\ UNCHANGED connVars
  /\ UNCHANGED graphVars
  /\ UNCHANGED logVars
  /\ UNCHANGED peerVars
  /\ UNCHANGED pureVars

\* wait_for(shield(analysis_task), timeout): the task completed, break
NarrationTaskCompleted ==
  /\ sPc = "wait" /\ TaskDone
  /\ sPc' = "after_loop"
  /\ UNCHANGED <<entry, runs, query, pc, result, calls, failures, elapsed, nIdx,
                 connected, sent>>
  /\ UNCHANGED connVars
  /\ UNCHANGED graphVars
  /\ UNCHANGED logVars
  /\ UNCHANGED peerVars
  /\ UNCHANGED pureVars

\* a wait_for without the shield: the timeout cancels the pipeline task
NarrationTimeoutCancels ==
  /\ sPc = "wait" /\ ~TaskDone
  /\ nIdx' = nIdx + 1
  /\ sPc' = IF nIdx = NarrationStages THEN "after_loop" ELSE "narrate"
  /\ pc' = "idle"
  /\ UNCHANGED <<entry, runs, query, result, calls, failures, elapsed,
                 connected, sent>>
  /\ UNCHANGED connVars
  /\ UNCHANGED graphVars
  /\ UNCHANGED logVars
  /\ UNCHANGED peerVars
  /\ UNCHANGED pureVars

\* wait_for(...) timed out: continue with the next stage of the table
NarrationTimeout ==
  /\ sPc = "wait" /\ ~TaskDone
  /\ nIdx' = nIdx + 1
  /\ sPc' = IF nIdx = NarrationStages THEN "after_loop" ELSE "narrate"
  /\ UNCHANGED <<entry, runs, query, pc, result, calls, failures, elapsed,
                 connected, sent>>
  /\ UNCHANGED connVars
  /\ UNCHANGED graphVars
  /\ UNCHANGED logVars
  /\ UNCHANGED peerVars
  /\ UNCHANGED pureVars

\* after the loop: step 6 when the task is still running
NarrationEnd ==
  /\ sPc = "after_loop"
  /\ sent' = IF TaskDone THEN sent
             ELSE send_to_client(sent, Requester, OpenSockets,
                                 <<Ev("step_complete", 6, "")>>)
  /\ sPc' = "await"
  /\ UNCHANGED <<entry, runs, query, pc, result, calls, failures, elapsed, nIdx,
                 connected>>
  /\ UNCHANGED connVars
  /\ UNCHANGED graphVars
  /\ UNCHANGED logVars
  /\ UNCHANGED peerVars
  /\ UNCHANGED pureVars

\* a stream that sends nothing
StreamEventsSilent(res) == <<>>

\* a stream that ends without the completion event
StreamEventsNoComplete(res) ==
  IF "error" \in res.keys THEN <<Ev("error", 0, "")>>
  ELSE PerAgent("multi_perspective_update", 0)

\* the literal figures stream_enhanced_results puts into every completion
\* event (hundredths)
CannedPerformanceComparison ==
  [baseline_vs_ensemble |-> 134, multi_perspective_advantage |-> 42,
   consensus_strength |-> 87, analytical_depth |-> 91]

CannedQualityScores ==
  [overall_quality |-> 88, coherence |-> 91, completeness |-> 85, depth |-> 89]

CannedBaselineComparison ==
  [average_baseline_confidence |-> 72, ensemble_confidence |-> 88,
   improvement_factor |-> 122, perspective_coverage |-> 300]

CannedImprovementMetrics ==
  [depth_improvement |-> 31, breadth_improvement |-> 28,
   synthesis_quality |-> 35, coherence_boost |-> 19]

\* completion_status as stream_enhanced_results recomputes it from the result
\* dict: bool() of the two dicts, any() over the analyses' texts
StreamedCompletionStatus(res) ==
  {"baselines_complete", "judging_complete"}
  \cup {f \in {"step1_complete"} : \E m \in Models :
          res.multi_perspective_analyses[m].step1_economic.content # EmptyText}
  \cup {f \in {"step2_complete"} : \E m \in Models :
          res.multi_perspective_analyses[m].step2_economic_environmental
            # EmptyText}
  \cup {f \in {"step3_complete"} : \E m \in Models :
          res.multi_perspective_analyses[m].step3_complete_synthesis # EmptyText}

\* comprehensive_results of stream_enhanced_results; judge_assessments is
\* result.get("judge_assessments", {}), a key the result dict does not have
comprehensive_results(res) ==
  [final_synthesis |-> res.judge_evaluation.final_synthesis,
   judge_evaluation |->
     [judge_assessment |-> res.judge_evaluation.judge_assessment,
      final_evaluation |-> res.judge_evaluation.judge_analysis,
      final_synthesis |-> res.judge_evaluation.final_synthesis,
      quality_scores |-> res.judge_evaluation.quality_scores],
   performance_comparison |-> CannedPerformanceComparison,
   quality_scores |-> CannedQualityScores,
   baseline_comparison |-> CannedBaselineComparison,
   improvement_metrics |-> CannedImprovementMetrics,
   completion_status |-> StreamedCompletionStatus(res),
   baseline_responses |-> res.baseline_responses,
   multi_perspective_analyses |-> res.multi_perspective_analyses,
   judge_assessments |-> {}]

\* the analysis_complete event of stream_enhanced_results
EvComplete(res) ==
  [type |-> "analysis_complete", step |-> 0, agent |-> "", text |-> "",
   results |-> comprehensive_results(res),
   processing_time |-> res.processing_time]

\* what stream_enhanced_results sends for a result dict
StreamEvents(res) ==
  IF "error" \in res.keys THEN <<Ev("error", 0, "")>>
  ELSE SelectSeq(PerAgent("baseline_response", 0),
                 LAMBDA e : res.baseline_responses[e.agent].content # EmptyText)
       \o PerAgent("multi_perspective_update", 0)
       \o <<EvComplete(res)>>

\* result = await analysis_task; stream_enhanced_results(websocket, result)
stream_enhanced_results ==
  /\ sPc = "await" /\ TaskDone
  /\ sent' = send_to_client(sent, Requester, OpenSockets, StreamEvents(result))
  /\ sPc' = "idle"
  /\ pc' = "idle"
  /\ UNCHANGED <<entry, runs, query, result, calls, failures, elapsed, nIdx,
                 connected>>
  /\ UNCHANGED connVars
  /\ UNCHANGED graphVars
  /\ UNCHANGED logVars
  /\ UNCHANGED peerVars
  /\ UNCHANGED pureVars

\* what run_enhanced_demo_analysis broadcasts, in order
DemoStep(step) ==
  <<Ev("step_complete", step, "")>>
  \o <<Ev("agent_update", step, "claude"), Ev("agent_update", step, "claude"),
       Ev("agent_update", step, "gpt"), Ev("agent_update", step, "gpt"),
       Ev("agent_update", step, "grok"), Ev("agent_update", step, "grok")>>
  \o PerAgent("multi_perspective_update", step)
  \o <<Ev("judge_assessment", step, "")>>

DemoBaselineAgent(a) ==
  <<Ev("agent_update", 1, a), Ev("baseline_response", 1, a), Ev("agent_update", 1, a)>>

DemoEvents ==
  <<Ev("step_complete", 1, ""), Ev("judge_assessment", 1, "")>>
  \o DemoBaselineAgent("claude") \o DemoBaselineAgent("gpt") \o DemoBaselineAgent("grok")
  \o <<Ev("judge_assessment", 1, "")>>
  \o DemoStep(2) \o DemoStep(3) \o DemoStep(4)
  \o <<Ev("step_complete", 5, ""), Ev("agent_update", 5, "judge"),
       Ev("agent_update", 5, "judge"), Ev("judge_assessment", 5, ""),
       Ev("step_complete", 6, ""), Ev("analysis_complete", 0, "")>>

\* the script between two of its asyncio.sleep calls that separate the steps
DemoChunkEnds == <<12, 23, 34, 45, 49, 51>>

DemoChunk(i) ==
  SubSeq(DemoEvents, IF i = 1 THEN 1 ELSE DemoChunkEnds[i - 1] + 1,
         DemoChunkEnds[i])

\* run_enhanced_demo_analysis: the scripted run, broadcast to every client,
\* one step of the script at a time
run_enhanced_demo_analysis ==
  /\ sPc = "demo"
  /\ sent' = broadcast_to_all(sent, connected, DemoChunk(nIdx))
  /\ connected' = broadcast_registry(connected)
  /\ client_info' = client_info \ (connected \ connected')
  /\ IF nIdx = Len(DemoChunkEnds)
       THEN sPc' = "idle" /\ nIdx' = nIdx
       ELSE sPc' = "demo" /\ nIdx' = nIdx + 1
  /\ UNCHANGED <<entry, runs, query, pc, result, calls, failures, elapsed>>
  /\ UNCHANGED <<sock, cots, handled, lastMsg, fault, audience>>
  /\ UNCHANGED graphVars
  /\ UNCHANGED logVars
  /\ UNCHANGED peerVars
  /\ UNCHANGED pureVars

\* ------------------------------------------- connections and messages
Servers == {"real", "demo", "frontend", "simple"}

Backend == {"real", "demo"}

\* a confirmation that carries the same identifier for every client
GreetingShared(c) == EvText("connection_confirmed", "client")

\* what register_client sends to the new client
Greeting(c) ==
  IF entry = "frontend" THEN EvText("connection_established", "")
  ELSE EvText("connection_confirmed", c)

\* a client's connection is accepted: websocket_handler up to the message
\* loop, register_client with its confirmation
register_client(c) ==
  /\ entry \in Servers /\ sock[c] = "new"
  /\ sock' = [sock EXCEPT ![c] = "open"]
  /\ connected' = connected \cup {c}
  /\ client_info' = IF entry \in Backend THEN client_info \cup {c} ELSE client_info
  /\ sent' = [sent EXCEPT ![c] = sent[c] \o <<Greeting(c)>>]
  /\ UNCHANGED <<entry, runs, query, pc, result, calls, failures, elapsed, sPc,
                 nIdx, cots, handled, lastMsg, fault, audience>>
  /\ UNCHANGED graphVars
  /\ UNCHANGED logVars
  /\ UNCHANGED peerVars
  /\ UNCHANGED pureVars

\* the client closes its connection; the server notices at its next read or
\* send
ClientCloses(c) ==
  /\ entry \in Servers /\ sock[c] = "open"
  /\ sock' = [sock EXCEPT ![c] = "closed"]
  /\ audience' = audience \ {c}
  /\ UNCHANGED <<entry, runs, query, pc, result, calls, failures, elapsed, sPc,
                 nIdx, connected, sent, client_info, cots, handled, lastMsg,
                 fault>>
  /\ UNCHANGED graphVars
  /\ UNCHANGED logVars
  /\ UNCHANGED peerVars
  /\ UNCHANGED pureVars

\* the message loop of a closed connection ends (ConnectionClosed is caught)
\* and the finally branch unregisters the client; the requester's handler
\* reads again only after its command returned
unregister_client(c) ==
  /\ entry \in Servers /\ sock[c] = "closed"
  /\ c = Requester => sPc = "idle"
  /\ sock' = [sock EXCEPT ![c] = "gone"]
  /\ connected' = connected \ {c}
  /\ client_info' = client_info \ {c}
  /\ UNCHANGED <<entry, runs, query, pc, result, calls, failures, elapsed, sPc,
                 nIdx, sent, cots, handled, lastMsg, fault, audience>>
  /\ UNCHANGED graphVars
  /\ UNCHANGED logVars
  /\ UNCHANGED peerVars
  /\ UNCHANGED pureVars

\* messages other than start_analysis: a ping, a message of the unknown type
\* "foo" (or with no type), and text that is not JSON
MessageKinds == {"ping", "unknown", "garbage"}

\* the reply of a ping that also goes out as an error
MessageReplyPingError(kind) ==
  CASE kind = "ping" -> <<EvText("pong", ""), EvText("error", "pong")>>
    [] kind = "unknown" /\ entry \in Backend ->
         <<EvText("error", "Unknown message type: foo")>>
    [] kind = "garbage" /\ entry \in Backend ->
         <<EvText("error", "Invalid JSON format")>>
    [] OTHER -> <<>>

\* what handle_client_message sends back for a message of this kind
MessageReply(kind) ==
  CASE kind = "ping" /\ entry \in Backend \cup {"frontend"} ->
         <<EvText("pong", "")>>
    [] kind = "unknown" /\ entry \in Backend ->
         <<EvText("error", "Unknown message type: foo")>>
    [] kind = "garbage" /\ entry \in Backend ->
         <<EvText("error", "Invalid JSON format")>>
    [] kind = "garbage" /\ entry = "frontend" ->
         <<EvText("error", "Invalid JSON message")>>
    [] OTHER -> <<>>

\* whether the exception of this message ends the connection handler: the
\* simple server parses inside its connection-wide try
MessageEndsHandler(kind) == entry = "simple" /\ kind = "garbage"

\* handle_client_message for a message that is not start_analysis
handle_client_message(kind) ==
  /\ entry \in Servers /\ sPc = "idle" /\ sock[Requester] = "open"
  /\ lastMsg # "start" /\ handled < MaxMessages
  /\ handled' = handled + 1
  /\ lastMsg' = kind
  /\ sent' = send_to_client(sent, Requester, OpenSockets, MessageReply(kind))
  /\ IF MessageEndsHandler(kind)
       THEN /\ sock' = [sock EXCEPT ![Requester] = "gone"]
            /\ connected' = connected \ {Requester}
       ELSE UNCHANGED <<sock, connected>>
  /\ UNCHANGED <<entry, runs, query, pc, result, calls, failures, elapsed, sPc,
                 nIdx, client_info, cots, fault, audience>>
  /\ UNCHANGED graphVars
  /\ UNCHANGED logVars
  /\ UNCHANGED peerVars
  /\ UNCHANGED pureVars

\* a client sends start_analysis once on its connection
start_analysis(q, k) ==
  /\ lastMsg # "start"
  /\ handle_start_analysis(q, k)

\* ------------------------------------------- fontend/websocket_server.py
\* what run_demo_analysis_with_updates broadcasts, by step of its script;
\* step 0 is handle_start_analysis's analysis_started
FrontendAgents(step) ==
  <<Ev("agent_update", step, "claude"), Ev("agent_update", step, "claude"),
    Ev("agent_update", step, "gpt"), Ev("agent_update", step, "gpt"),
    Ev("agent_update", step, "grok"), Ev("agent_update", step, "grok")>>

FrontendSteps == 5

FrontendChunk(i) ==
  CASE i = 0 -> <<Ev("analysis_started", 0, "")>>
    [] i \in 1..4 -> <<Ev("step_complete", i, "")>> \o FrontendAgents(i)
    [] OTHER -> <<Ev("step_complete", 5, ""), Ev("agent_update", 5, "judge"),
                  Ev("agent_update", 5, "judge"), Ev("step_complete", 6, ""),
                  Ev("analysis_complete", 0, "")>>

\* the registered clients whose send raises ConnectionClosed
ClosedMembers == {c \in connected : sock[c] # "open"}

\* broadcast_to_all of the frontend server when no registered connection is
\* closed: every client gets the events
frontend_broadcast_all(log, evs) ==
  [x \in Clients |-> IF x \in connected THEN log[x] \o evs ELSE log[x]]

\* broadcast_to_all of the frontend server when a registered connection is
\* closed: the clients iterated before it (got) have the event, send_to_client
\* discards the closed client from the set being iterated, and the iteration
\* raises RuntimeError
frontend_broadcast_some(log, got, evs) ==
  [x \in Clients |-> IF x \in got THEN log[x] \o <<Head(evs)>> ELSE log[x]]

\* handle_start_analysis of the frontend server: the query is checked, then
\* the scripted run is broadcast
frontend_handle_start_analysis(q) ==
  /\ entry = "frontend" /\ sPc = "idle" /\ sock[Requester] = "open"
  /\ lastMsg # "start" /\ runs < MaxRuns
  /\ runs' = runs + 1
  /\ ResetRun
  /\ query' = q
  /\ result' = NoResult
  /\ lastMsg' = "start"
  /\ handled' = 0
  /\ audience' = connected \cap OpenSockets
  /\ IF Strip(q) = <<>>
       THEN /\ sent' = send_to_client([c \in Clients |-> <<>>], Requester,
                         OpenSockets, <<EvText("error", "Query is required")>>)
            /\ sPc' = "idle"
       ELSE /\ sent' = [c \in Clients |-> <<>>]
            /\ sPc' = "fe_run"
  /\ nIdx' = 0
  /\ UNCHANGED <<entry, pc, failures, connected, sock, client_info, cots, fault>>
  /\ UNCHANGED logVars
  /\ UNCHANGED peerVars
  /\ UNCHANGED <<sample, applied, out, package, sharedVars>>

\* one step of the frontend server's script is broadcast
frontend_broadcast ==
  /\ entry = "frontend" /\ sPc = "fe_run"
  /\ IF ClosedMembers = {}
       THEN /\ sent' = frontend_broadcast_all(sent, FrontendChunk(nIdx))
            /\ IF nIdx = FrontendSteps
                 THEN sPc' = "idle" /\ nIdx' = nIdx
                 ELSE sPc' = "fe_run" /\ nIdx' = nIdx + 1
            /\ UNCHANGED <<connected, fault>>
       ELSE /\ \E x \in ClosedMembers, got \in SUBSET (connected \cap OpenSockets) :
                 /\ sent' = frontend_broadcast_some(sent, got, FrontendChunk(nIdx))
                 /\ connected' = connected \ {x}
            /\ fault' = fault \cup {"broadcast_to_all"}
            /\ sPc' = "fe_except"
            /\ nIdx' = nIdx
  /\ UNCHANGED <<entry, runs, query, pc, result, calls, failures, elapsed, sock,
                 client_info, cots, handled, lastMsg, audience>>
  /\ UNCHANGED graphVars
  /\ UNCHANGED logVars
  /\ UNCHANGED peerVars
  /\ UNCHANGED pureVars

\* the except branch that caught the RuntimeError broadcasts an error event;
\* when that broadcast raises too, the caller's except branch does the same
frontend_except ==
  /\ entry = "frontend" /\ sPc = "fe_except"
  /\ IF ClosedMembers = {}
       THEN /\ sent' = frontend_broadcast_all(sent,
                         <<EvText("error", "Set changed size during iteration")>>)
            /\ sPc' = "idle"
            /\ UNCHANGED connected
       ELSE /\ \E x \in ClosedMembers, got \in SUBSET (connected \cap OpenSockets) :
                 /\ sent' = frontend_broadcast_some(sent, got,
                              <<EvText("error", "Set changed size during iteration")>>)
                 /\ connected' = connected \ {x}
            /\ sPc' = "fe_except"
  /\ UNCHANGED <<entry, runs, query, pc, result, calls, failures, elapsed, nIdx,
                 sock, client_info, cots, handled, lastMsg, fault, audience>>
  /\ UNCHANGED graphVars
  /\ UNCHANGED logVars
  /\ UNCHANGED peerVars
  /\ UNCHANGED pureVars

\* ------------------------------------- fontend/simple_websocket_server.py
SimpleResponses == 5

SimpleChunk(i) ==
  <<Ev("agent_response", i, "")>>
  \o (IF i = SimpleResponses THEN <<Ev("analysis_complete", 0, "")>> ELSE <<>>)

\* handle_client on start_analysis: analysis_started is sent
simple_start_analysis(q) ==
  /\ entry = "simple" /\ sPc = "idle" /\ sock[Requester] = "open"
  /\ lastMsg # "start" /\ runs < MaxRuns
  /\ runs' = runs + 1
  /\ ResetRun
  /\ query' = q
  /\ result' = NoResult
  /\ lastMsg' = "start"
  /\ handled' = 0
  /\ audience' = connected \cap OpenSockets
  /\ sent' = [c \in Clients |->
               IF c = Requester THEN <<Ev("analysis_started", 0, "")>> ELSE <<>>]
  /\ sPc' = "simple"
  /\ nIdx' = 1
  /\ UNCHANGED <<entry, pc, failures, connected, sock, client_info, cots, fault>>
  /\ UNCHANGED logVars
  /\ UNCHANGED peerVars
  /\ UNCHANGED <<sample, applied, out, package, sharedVars>>

\* handle_client: after each sleep one agent_response, then the completion;
\* a send on the closed connection raises and ends the handler
simple_progress ==
  /\ entry = "simple" /\ sPc = "simple"
  /\ IF sock[Requester] = "open"
       THEN /\ sent' = [sent EXCEPT ![Requester] = @ \o SimpleChunk(nIdx)]
            /\ IF nIdx = SimpleResponses
                 THEN sPc' = "idle" /\ nIdx' = nIdx
                 ELSE sPc' = "simple" /\ nIdx' = nIdx + 1
            /\ UNCHANGED <<sock, connected>>
       ELSE /\ sock' = [sock EXCEPT ![Requester] = "gone"]
            /\ connected' = connected \ {Requester}
            /\ sPc' = "idle"
            /\ UNCHANGED <<sent, nIdx>>
  /\ UNCHANGED <<entry, runs, query, pc, result, calls, failures, elapsed,
                 client_info, cots, handled, lastMsg, fault, audience>>
  /\ UNCHANGED graphVars
  /\ UNCHANGED logVars
  /\ UNCHANGED peerVars
  /\ UNCHANGED pureVars

\* ----------------------------------------------------------- specification
Next ==
  \/ \E q \in Queries : MainProcess(q)
  \/ MainLog
  \/ GraphValidate
  \/ EnterModelNode
  \/ \E m \in Models, ok \in BOOLEAN : AdapterReturn(m, ok)
  \/ IssueStageJudge
  \/ \E ok \in BOOLEAN : StageJudgeReturn(ok)
  \/ EnterJudgeEvaluation
  \/ \E ok \in BOOLEAN : JudgeEvaluationReturn(ok)
  \/ PerformanceLogging
  \/ BuildResult
  \/ NodeException
  \/ \E q \in Queries, k \in BOOLEAN : handle_start_analysis(q, k)
  \/ run_real_analysis_start
  \/ run_real_analysis_fallback
  \/ Narrate
  \/ NarrationTaskCompleted
  \/ NarrationTimeout
  \/ NarrationEnd
  \/ stream_enhanced_results
  \/ run_enhanced_demo_analysis

Spec == Init /\ [][Next]_vars

\* the servers with their connections: clients connect, send messages and
\* close at any time
ServerQueries == {<<>>, <<"a">>}

ServerInit ==
  /\ entry \in Servers
  /\ runs = 0
  /\ query = <<>>
  /\ pc = "idle"
  /\ node = "none"
  /\ phase = "none"
  /\ pending = {}
  /\ results = NoResults
  /\ raised = NoneRaised
  /\ st = MultiPerspectiveEnsembleState
  /\ result = NoResult
  /\ entered = NotEntered
  /\ calls = 0
  /\ failures = 0
  /\ elapsed = 0
  /\ nodeMemory = <<>>
  /\ nodeFile = <<>>
  /\ sysMemory = <<>>
  /\ sysFile = <<>>
  /\ peerMemory = <<>>
  /\ peerRuns = 0
  /\ PureIdle
  /\ sPc = "idle"
  /\ nIdx = 0
  /\ connected = {}
  /\ sent = [c \in Clients |-> <<>>]
  /\ sock = [c \in Clients |-> "new"]
  /\ client_info = {}
  /\ cots = TRUE
  /\ handled = 0
  /\ lastMsg = "none"
  /\ fault = {}
  /\ audience = {}

ServerNext ==
  \/ \E c \in Clients : register_client(c)
  \/ \E c \in Clients : ClientCloses(c)
  \/ \E c \in Clients : unregister_client(c)
  \/ \E kind \in MessageKinds : handle_client_message(kind)
  \/ \E q \in ServerQueries, k \in BOOLEAN : start_analysis(q, k)
  \/ run_real_analysis_start
  \/ run_real_analysis_fallback
  \/ GraphValidate
  \/ EnterModelNode
  \/ \E m \in Models, ok \in BOOLEAN : AdapterReturn(m, ok)
  \/ IssueStageJudge
  \/ \E ok \in BOOLEAN : StageJudgeReturn(ok)
  \/ EnterJudgeEvaluation
  \/ \E ok \in BOOLEAN : JudgeEvaluationReturn(ok)
  \/ PerformanceLogging
  \/ BuildResult
  \/ NodeException
  \/ Narrate
  \/ NarrationTaskCompleted
  \/ NarrationTimeout
  \/ NarrationEnd
  \/ stream_enhanced_results
  \/ run_enhanced_demo_analysis
  \/ \E q \in ServerQueries : frontend_handle_start_analysis(q)
  \/ frontend_broadcast
  \/ frontend_except
  \/ \E q \in ServerQueries : simple_start_analysis(q)
  \/ simple_progress

ServerSpec == ServerInit /\ [][ServerNext]_vars

\* one client's command on the backend server, with the scheduling asyncio
\* gives: every task that can run is eventually run, every awaited call
\* eventually returns or raises, every sleep and timeout eventually ends
LiveInit == ServerInit /\ entry \in Backend

PipelineStep ==
  \/ GraphValidate
  \/ EnterModelNode
  \/ \E m \in Models, ok \in BOOLEAN : AdapterReturn(m, ok)
  \/ IssueStageJudge
  \/ \E ok \in BOOLEAN : StageJudgeReturn(ok)
  \/ EnterJudgeEvaluation
  \/ \E ok \in BOOLEAN : JudgeEvaluationReturn(ok)
  \/ PerformanceLogging
  \/ BuildResult
  \/ NodeException

HandlerStep ==
  \/ run_real_analysis_start
  \/ run_real_analysis_fallback
  \/ Narrate
  \/ NarrationTaskCompleted
  \/ NarrationTimeout
  \/ NarrationEnd
  \/ stream_enhanced_results
  \/ run_enhanced_demo_analysis

LiveNext ==
  \/ register_client(Requester)
  \/ ClientCloses(Requester)
  \/ unregister_client(Requester)
  \/ \E q \in ServerQueries, k \in BOOLEAN : start_analysis(q, k)
  \/ PipelineStep
  \/ HandlerStep

LiveSpec ==
  LiveInit /\ [][LiveNext]_vars /\ WF_vars(PipelineStep) /\ WF_vars(HandlerStep)

\* the command line program started on log files that hold earlier records
OldRecord == LogRecord(<<"a">>, T("old synthesis"), T("old evaluation"), 3, 0)

LogInit ==
  /\ entry = "main"
  /\ runs = 0
  /\ query = <<>>
  /\ pc = "idle"
  /\ node = "none"
  /\ phase = "none"
  /\ pending = {}
  /\ results = NoResults
  /\ raised = NoneRaised
  /\ st = MultiPerspectiveEnsembleState
  /\ result = NoResult
  /\ entered = NotEntered
  /\ calls = 0
  /\ failures = 0
  /\ elapsed = 0
  /\ nodeFile \in {<<>>, <<OldRecord>>, <<OldRecord, OldRecord>>}
  /\ nodeMemory = nodeFile
  /\ sysFile \in {<<>>, <<OldRecord>>}
  /\ sysMemory = sysFile
  /\ peerMemory = nodeFile
  /\ peerRuns = 0
  /\ PureIdle
  /\ sPc = "idle"
  /\ nIdx = 0
  /\ connected = {}
  /\ sent = [c \in Clients |-> <<>>]
  /\ sock = [c \in Clients |-> "new"]
  /\ client_info = {}
  /\ cots = TRUE
  /\ handled = 0
  /\ lastMsg = "none"
  /\ fault = {}
  /\ audience = {}

LogNext ==
  \/ \E q \in ServerQueries : MainProcess(q)
  \/ MainLog
  \/ PipelineStep

LogSpec == LogInit /\ [][LogNext]_vars

\* a second process (another server, or the command line program next to a
\* server) whose MultiPerspectiveNodes has its own MemoryLogger on
\* ensemble_memory.json, constructed when this one was
PeerRecord(k) == LogRecord(<<"a">>, T("peer synthesis"), T("peer evaluation"), 3, 0 - k)

\* the second process completes a run: its performance_logging_node calls
\* log_result on its own logger, which appends to its memory and rewrites the
\* file from it
PeerLog ==
  /\ peerRuns < MaxRuns
  /\ peerRuns' = peerRuns + 1
  /\ peerMemory' = log_result(peerMemory, PeerRecord(peerRuns + 1))
  /\ nodeFile' = _save_memory(peerMemory')
  /\ UNCHANGED <<entry, runs, query, pc, result, calls, failures, elapsed,
                 nodeMemory, sysMemory, sysFile>>
  /\ UNCHANGED graphVars
  /\ UNCHANGED serverVars
  /\ UNCHANGED pureVars

SharedLogNext ==
  \/ LogNext
  \/ PeerLog

SharedLogSpec == LogInit /\ [][SharedLogNext]_vars

\* --------------------------------------- the parsing and metric functions
\* UnbiasedJudge._extract_score: brackets are removed before float()
StripBrackets(s) == IF s = "[0.9]" THEN "0.9" ELSE s

judge_extract_score(content, score_name) ==
  LET idx == {i \in 1..Len(content) : content[i].tag = score_name}
  IN IF idx = {} THEN DefaultScore
     ELSE LET i == CHOOSE j \in idx : \A k \in idx : j <= k
              v == StripBrackets(content[i].body)
          IN IF v \in FloatLiterals
               THEN Max(0, Min(100, ParseFloat(v)))
               ELSE DefaultScore

\* UnbiasedJudge._extract_section: an empty rest of the tag line is not
\* kept, and an empty result is replaced by the whole content
UnbiasedJudgeStopTags ==
  {"ANALYSIS", "SYNTHESIS", "SCORES", "REASONING", "CLAUDE_SCORE", "GPT_SCORE",
   "GROK_SCORE"}

RECURSIVE JudgeCapture(_, _, _, _)
JudgeCapture(lines, name, capturing, acc) ==
  IF lines = <<>> THEN acc
  ELSE LET l == Head(lines) IN
    IF l.tag = name
      THEN JudgeCapture(Tail(lines), name, TRUE,
                        IF l.body # "" THEN Append(acc, L("", l.body)) ELSE acc)
    ELSE IF capturing /\ l.tag \in UnbiasedJudgeStopTags THEN acc
    ELSE IF capturing THEN JudgeCapture(Tail(lines), name, TRUE, Append(acc, l))
    ELSE JudgeCapture(Tail(lines), name, FALSE, acc)

judge_extract_section(content, section_name) ==
  LET found == StripText(JudgeCapture(content, section_name, FALSE, <<>>))
  IN IF found # <<>> THEN found ELSE content

\* ChainOfThoughtEnhancer._extract_section
CotStopTags ==
  {"UNDERSTANDING", "ANALYSIS", "REASONING", "SYNTHESIS", "VALIDATION",
   "CONFIDENCE", "PERSPECTIVE_FRAME", "PERSPECTIVE_UNDERSTANDING",
   "DOMAIN_BREAKDOWN", "PERSPECTIVE_REASONING", "IMPLICATIONS",
   "PERSPECTIVE_SYNTHESIS", "PERSPECTIVE_LIMITATIONS",
   "NEW_PERSPECTIVE_ANALYSIS", "PERSPECTIVE_COMPARISON",
   "INTEGRATION_REASONING", "ENHANCED_SYNTHESIS", "TECHNOLOGICAL_PERSPECTIVE",
   "THREE_WAY_COMPARISON", "HOLISTIC_REASONING", "COMPREHENSIVE_SYNTHESIS",
   "CONFIDENCE_ASSESSMENT", "FINAL_CONFIDENCE"}

cot_extract_section(content, section_name) ==
  StripText(Capture(content, section_name, CotStopTags, FALSE, <<>>))

\* a length ratio that is reported as computed
length_improvement_uncapped(ensemble_length, baseline_length) ==
  (ensemble_length * 100) \div Max(baseline_length, 1)

\* performance_logging_node: len(ensemble) / max(len(baseline), 1), capped
length_improvement(ensemble_length, baseline_length) ==
  Min((ensemble_length * 100) \div Max(baseline_length, 1), 500)

\* len() of a text; the model counts a text's lines
TextLength(text) == Len(text)

\* performance_logging_node: the length entries of improvement_metrics, one
\* per backend that has a baseline, computed only when there is a final
\* synthesis
improvement_metrics(state) ==
  IF state.final_synthesis = EmptyText THEN [m \in {} |-> 0]
  ELSE [m \in {x \in Models : state.baseline[x].present} |->
          length_improvement(TextLength(state.final_synthesis),
                             TextLength(state.baseline[m].content))]

\* the response texts the functions are applied to: at most MaxLines lines
SeqsUpTo(S, n) == UNION {[1..k -> S] : k \in 0..n}

ScoreLines ==
  {L("CLAUDE_SCORE", v) : v \in {"0.9", "1.5", "-0.2", "nan", "n/a", "[0.9]"}}
  \cup {L("GPT_SCORE", "0.9"), L("", "more detail")}

ConfidenceLines ==
  {L("CONFIDENCE", v) : v \in {"0.9", "1.5", "-0.2", "nan", "high"}}
  \cup {L("FINAL_CONFIDENCE", "0.8"), L("FINAL_CONFIDENCE", "1.5"),
        L("", "more detail")}

SectionLines ==
  {L("COMPREHENSIVE_SYNTHESIS", "full synthesis"),
   L("CONFIDENCE_ASSESSMENT", "fairly sure"), L("FINAL_CONFIDENCE", "0.9"),
   L("FINAL_SYNTHESIS", "final answer"),
   L("METHODOLOGY_ASSESSMENT", "methodology"), L("CLAUDE_SCORE", "0.9"),
   L("REASONING", "because"), L("ANALYSIS", ""), L("", "more detail"),
   L("", "")}

SampleTexts ==
  SeqsUpTo(ScoreLines, MaxLines) \cup SeqsUpTo(ConfidenceLines, MaxLines)
  \cup SeqsUpTo(SectionLines, MaxLines)

SampleLengths == {0, 1, 2, 3, 10000}

ScoreTags == {"CLAUDE_SCORE", "GPT_SCORE", "GROK_SCORE"}

SectionTags ==
  {"COMPREHENSIVE_SYNTHESIS", "FINAL_SYNTHESIS", "REASONING", "ANALYSIS",
   "PERSPECTIVE_ANALYSIS"}

ParseInit ==
  /\ entry = "parse"
  /\ runs = 0
  /\ query = <<>>
  /\ pc = "idle"
  /\ node = "none"
  /\ phase = "none"
  /\ pending = {}
  /\ results = NoResults
  /\ raised = NoneRaised
  /\ st = MultiPerspectiveEnsembleState
  /\ result = NoResult
  /\ entered = NotEntered
  /\ calls = 0
  /\ failures = 0
  /\ elapsed = 0
  /\ nodeMemory = <<>>
  /\ nodeFile = <<>>
  /\ sysMemory = <<>>
  /\ sysFile = <<>>
  /\ peerMemory = <<>>
  /\ peerRuns = 0
  /\ sPc = "idle"
  /\ nIdx = 0
  /\ connected = {}
  /\ sent = [c \in Clients |-> <<>>]
  /\ sock = [c \in Clients |-> "new"]
  /\ client_info = {}
  /\ cots = TRUE
  /\ handled = 0
  /\ lastMsg = "none"
  /\ fault = {}
  /\ audience = {}
  /\ \/ sample \in [text : SampleTexts, baseline : {0}, synthesis : {0}]
     \/ sample \in [text : {<<>>}, baseline : SampleLengths,
                    synthesis : SampleLengths]
  /\ applied = [function |-> "none", tag |-> ""]
  /\ out = NoOut
  /\ package = NoPackage
  /\ prompts = NoPrompts
  /\ SharedIdle

\* the function is called on the sample and returns
Returns(function, tag, text, number) ==
  /\ applied.function = "none"
  /\ applied' = [function |-> function, tag |-> tag]
  /\ out' = [text |-> text, number |-> number]
  /\ UNCHANGED <<entry, runs, query, pc, result, calls, failures, elapsed,
                 sample, package, prompts, sharedVars>>
  /\ UNCHANGED graphVars
  /\ UNCHANGED logVars
  /\ UNCHANGED peerVars
  /\ UNCHANGED serverVars

Call_extract_section(tag) ==
  Returns("_extract_section", tag, _extract_section(sample.text, tag), 0)

Call_extract_judge_section(tag) ==
  Returns("_extract_judge_section", tag,
          _extract_judge_section(sample.text, tag), 0)

Call_judge_extract_section(tag) ==
  Returns("judge_extract_section", tag,
          judge_extract_section(sample.text, tag), 0)

Call_cot_extract_section(tag) ==
  Returns("cot_extract_section", tag, cot_extract_section(sample.text, tag), 0)

Call_extract_confidence ==
  Returns("_extract_confidence", "", <<>>, _extract_confidence(sample.text))

Call_extract_judge_score(tag) ==
  Returns("_extract_judge_score", tag, <<>>,
          _extract_judge_score(sample.text, tag))

Call_judge_extract_score(tag) ==
  Returns("judge_extract_score", tag, <<>>,
          judge_extract_score(sample.text, tag))

\* the ratio is computed only when there is a final synthesis
Call_length_improvement ==
  /\ sample.synthesis > 0
  /\ Returns("length_improvement", "", <<>>,
             length_improvement(sample.synthesis, sample.baseline))

ParseNext ==
  \/ \E tag \in SectionTags : Call_extract_section(tag)
  \/ \E tag \in SectionTags : Call_extract_judge_section(tag)
  \/ \E tag \in SectionTags : Call_judge_extract_section(tag)
  \/ \E tag \in SectionTags : Call_cot_extract_section(tag)
  \/ Call_extract_confidence
  \/ \E tag \in ScoreTags : Call_extract_judge_score(tag)
  \/ \E tag \in ScoreTags : Call_judge_extract_score(tag)
  \/ Call_length_improvement

ParseSpec == ParseInit /\ [][ParseNext]_vars

\* ------------------------------------------------- guidance and prompts
\* The arguments of a run reach the stage prompts through the InputPackage.
\* A guidance text is a string, "" when none was given; a prompt is
\* represented by what it depends on: the perspective it names, and the
\* universal and the perspective-specific guidance it includes ("" when
\* the prompt has no such part).
DefaultPerspectives == <<"economic", "environmental", "technological">>

\* the perspective names a caller may pass
PerspectiveNames == {"economic", "environmental", "technological", "legal"}

\* the keys a client may use in perspectiveCots
PerspectiveCotKeys == {"economic", "environmental", "technological", "critical"}

UniversalTexts == {"", "caller's universal guidance"}

\* the guidance a client sends under a key, the guidance a caller passes as
\* chain_of_thought_k
ClientGuidance(key) ==
  CASE key = "economic" -> "client's economic guidance"
    [] key = "environmental" -> "client's environmental guidance"
    [] key = "technological" -> "client's technological guidance"
    [] OTHER -> "client's critical guidance"

CallerGuidance(k) ==
  CASE k = 1 -> "caller's guidance 1"
    [] k = 2 -> "caller's guidance 2"
    [] OTHER -> "caller's guidance 3"

get_universal_cot_guidance == "built-in universal guidance"

\* guidance.get(perspective.lower(), "")
get_perspective_specific_guidance(perspective) ==
  CASE perspective = "economic" -> "built-in economic guidance"
    [] perspective = "environmental" -> "built-in environmental guidance"
    [] perspective = "technological" -> "built-in technological guidance"
    [] OTHER -> ""

\* dict.get(key, "")
Get(dict, key) == IF key \in DOMAIN dict THEN dict[key] ELSE ""

\* a or b
Or(a, b) == IF a # "" THEN a ELSE b

\* InputPackage as validate_and_prepare_inputs builds it: the dict literal
\* {perspective_1: c1, perspective_2: c2, perspective_3: c3} keeps the last
\* value of a repeated key
validate_and_prepare_inputs(p1, p2, p3, universal_cot, c1, c2, c3) ==
  [perspective_1 |-> p1,
   perspective_2 |-> p2,
   perspective_3 |-> p3,
   universal_cot |-> universal_cot,
   perspective_specific_cots |->
     [n \in {p1, p2, p3} |->
        IF n = p3 THEN c3 ELSE IF n = p2 THEN c2 ELSE c1]]

Prompt(stage, perspective, universal, specific, issued) ==
  [stage |-> stage, perspective |-> perspective, universal |-> universal,
   specific |-> specific, issued |-> issued]

\* "Please provide a comprehensive answer to this query: {query}"
baseline_prompt == Prompt("baseline", "", "", "", TRUE)

create_multi_perspective_cot_prompt(perspective, universal, specific) ==
  Prompt("step1", perspective, universal, specific, TRUE)

_create_perspective_prompt(perspective, universal_cot, specific_cot) ==
  create_multi_perspective_cot_prompt(
    perspective,
    IF universal_cot = "" THEN get_universal_cot_guidance ELSE universal_cot,
    IF specific_cot = "" THEN get_perspective_specific_guidance(perspective)
    ELSE specific_cot)

create_perspective_comparison_cot_prompt(previous, new, guidance) ==
  Prompt("step2", new, "", guidance, TRUE)

create_three_perspective_synthesis_cot_prompt(tech_guidance) ==
  Prompt("step3", "technological", "", tech_guidance, TRUE)

\* no prompt is sent: the adapter returns "No economic analysis available
\* for comparison"
NoStep2Prompt == Prompt("step2", "environmental", "", "", FALSE)

\* the keys under which each server's run_real_analysis looks up the
\* guidance of perspectives 1, 2 and 3 in perspectiveCots: "backend" is
\* backend_websocket_server.py, "frontend" is the first server of
\* fontend/websocket_server.py
GuidanceKeys(server) ==
  IF server = "backend"
    THEN <<"economic", "environmental", "technological">>
    ELSE <<"critical", "creative", "analytical">>

PromptInit ==
  /\ entry = "prompt"
  /\ runs = 0
  /\ query = <<>>
  /\ pc = "idle"
  /\ node = "none"
  /\ phase = "none"
  /\ pending = {}
  /\ results = NoResults
  /\ raised = NoneRaised
  /\ st = MultiPerspectiveEnsembleState
  /\ result = NoResult
  /\ entered = NotEntered
  /\ calls = 0
  /\ failures = 0
  /\ elapsed = 0
  /\ nodeMemory = <<>>
  /\ nodeFile = <<>>
  /\ sysMemory = <<>>
  /\ sysFile = <<>>
  /\ peerMemory = <<>>
  /\ peerRuns = 0
  /\ sPc = "idle"
  /\ nIdx = 0
  /\ connected = {}
  /\ sent = [c \in Clients |-> <<>>]
  /\ sock = [c \in Clients |-> "new"]
  /\ client_info = {}
  /\ cots = TRUE
  /\ handled = 0
  /\ lastMsg = "none"
  /\ fault = {}
  /\ audience = {}
  /\ PureIdle

PromptFrame ==
  /\ UNCHANGED <<entry, runs, query, pc, result, calls, failures, elapsed,
                 sample, applied, out, sharedVars>>
  /\ UNCHANGED graphVars
  /\ UNCHANGED logVars
  /\ UNCHANGED peerVars
  /\ UNCHANGED serverVars

\* a run is started with these arguments; the graph packages them
Prepare(caller, universalCot, perspectiveCots, p1, p2, p3, c1, c2, c3) ==
  /\ ~package.made
  /\ package' =
       [made |-> TRUE,
        caller |-> caller,
        universalCot |-> universalCot,
        perspectiveCots |-> perspectiveCots,
        perspectives |-> <<p1, p2, p3>>,
        chain_of_thought |-> <<c1, c2, c3>>,
        input_package |->
          validate_and_prepare_inputs(p1, p2, p3, universalCot, c1, c2, c3)]
  /\ UNCHANGED prompts
  /\ PromptFrame

\* handle_start_analysis and run_real_analysis of a server: universalCot and
\* perspectiveCots are read from the message, the names are the default ones
run_real_analysis(server) ==
  \E universalCot \in UniversalTexts :
    \E given \in SUBSET PerspectiveCotKeys :
      LET perspectiveCots ==
            [k \in PerspectiveCotKeys |->
               IF k \in given THEN ClientGuidance(k) ELSE ""]
          keys == GuidanceKeys(server)
      IN Prepare(server, universalCot, perspectiveCots,
                 "economic", "environmental", "technological",
                 Get(perspectiveCots, keys[1]), Get(perspectiveCots, keys[2]),
                 Get(perspectiveCots, keys[3]))

\* process_multi_perspective_query called by a program with its own
\* three perspective names, in any order, and guidance
process_multi_perspective_query ==
  \E universal_cot \in UniversalTexts :
    \E p1 \in PerspectiveNames, p2 \in PerspectiveNames, p3 \in PerspectiveNames :
      \E given \in SUBSET (1..3) :
        LET c == [k \in 1..3 |-> IF k \in given THEN CallerGuidance(k) ELSE ""]
        IN /\ Cardinality({p1, p2, p3}) = 3
           /\ Prepare("caller", universal_cot,
                      [k \in PerspectiveCotKeys |-> ""],
                      p1, p2, p3, c[1], c[2], c[3])

\* the prompt a stage's adapters send is recorded
Sends(position, prompt) ==
  /\ package.made
  /\ Len(prompts) = position
  /\ prompts' = Append(prompts, prompt)
  /\ UNCHANGED package
  /\ PromptFrame

BaselinePrompts == Sends(0, baseline_prompt)

Step1Prompts ==
  LET economic_cot ==
        Get(package.input_package.perspective_specific_cots, "economic")
  IN Sends(1, _create_perspective_prompt(
                 "economic", package.input_package.universal_cot, economic_cot))

\* _step2_analysis_*: with the backend's step 1 analysis, or without it
Step2Prompts ==
  LET environmental_cot ==
        Get(package.input_package.perspective_specific_cots, "environmental")
  IN \E available \in BOOLEAN :
       Sends(2, IF available
                  THEN create_perspective_comparison_cot_prompt(
                         "economic", "environmental",
                         Or(environmental_cot,
                            get_perspective_specific_guidance("environmental")))
                  ELSE NoStep2Prompt)

Step3Prompts ==
  LET technological_cot ==
        Get(package.input_package.perspective_specific_cots, "technological")
  IN Sends(3, create_three_perspective_synthesis_cot_prompt(
                 Or(technological_cot,
                    get_perspective_specific_guidance("technological"))))

PromptNext ==
  \/ run_real_analysis("backend")
  \/ run_real_analysis("frontend")
  \/ process_multi_perspective_query
  \/ BaselinePrompts
  \/ Step1Prompts
  \/ Step2Prompts
  \/ Step3Prompts

PromptSpec == PromptInit /\ [][PromptNext]_vars

\* ----------------------------- broadcast_to_all of the backend, send by send
\* connected_clients is a dict: its entries are kept in insertion order and a
\* deleted entry leaves a hole; iterating it raises RuntimeError when its
\* size differs from the size it had when the iteration began
Hole == "-"

\* the first entry after position p that is not a hole; 0 when there is none
NextEntry(entries, p) ==
  IF \E i \in (p + 1)..Len(entries) : entries[i] # Hole
    THEN CHOOSE i \in (p + 1)..Len(entries) :
           entries[i] # Hole /\ \A j \in (p + 1)..(i - 1) : entries[j] = Hole
    ELSE 0

RemoveEntries(entries, gone) ==
  [i \in DOMAIN entries |-> IF entries[i] \in gone THEN Hole ELSE entries[i]]

\* the message of the next broadcast_to_all call of run_enhanced_demo_analysis:
\* the next event of the script, or the error event of its except branch
\* when the last call raised
BroadcastMessage ==
  IF iteration.at = "raised" /\ iteration.message.type # "error"
    THEN EvText("error", "Enhanced analysis failed")
    ELSE DemoEvents[iteration.calls + 1]

BroadcastInit == ServerInit /\ entry = "demo"

BroadcastFrame ==
  /\ UNCHANGED <<entry, runs, query, pc, result, calls, failures, elapsed,
                 sPc, nIdx, cots, handled, lastMsg, fault, audience>>
  /\ UNCHANGED graphVars
  /\ UNCHANGED logVars
  /\ UNCHANGED peerVars
  /\ UNCHANGED <<sample, applied, out, package, prompts, agent_responses,
                 handlers, inbox>>

\* websocket_handler of a new connection: register_client adds the entry and
\* sends the confirmation
BroadcastRegister(c) ==
  /\ sock[c] = "new"
  /\ sock' = [sock EXCEPT ![c] = "open"]
  /\ connected' = connected \cup {c}
  /\ client_info' = client_info \cup {c}
  /\ sent' = [sent EXCEPT ![c] = Append(@, Greeting(c))]
  /\ iteration' = [iteration EXCEPT
                     !.entries = Append(@, c),
                     !.changed = @ \/ iteration.at = "send"]
  /\ BroadcastFrame

\* websocket_handler of a closed connection ends: unregister_client deletes
\* the entry; the handler of the requester is the one running the broadcasts
BroadcastUnregister(c) ==
  /\ sock[c] = "closed"
  /\ c = Requester => iteration.calls \in {0, MaxMessages} /\ iteration.at # "send"
  /\ sock' = [sock EXCEPT ![c] = "gone"]
  /\ connected' = connected \ {c}
  /\ client_info' = client_info \ {c}
  /\ iteration' = [iteration EXCEPT
                     !.entries = RemoveEntries(@, {c}),
                     !.changed = @ \/ (iteration.at = "send" /\ c \in connected)]
  /\ UNCHANGED sent
  /\ BroadcastFrame

\* broadcast_to_all is called: it returns at once on an empty registry, else
\* the iteration begins and the send to the first entry is awaited
BroadcastStart ==
  /\ sock[Requester] \in {"open", "closed"}
  /\ iteration.at \in {"idle", "done", "raised"}
  /\ iteration.calls < MaxMessages
  /\ LET first == NextEntry(iteration.entries, 0)
     IN iteration' =
          [iteration EXCEPT
             !.calls = @ + 1,
             !.message = BroadcastMessage,
             !.at = IF connected = {} THEN "done" ELSE "send",
             !.used = Cardinality(connected),
             !.pos = first,
             !.to = IF first = 0 THEN Hole ELSE iteration.entries[first],
             !.disconnected = {},
             !.start = connected,
             !.changed = FALSE]
  /\ UNCHANGED <<sock, connected, client_info, sent>>
  /\ BroadcastFrame

\* the awaited send returns or raises ConnectionClosed, and the for loop asks
\* the dict iterator for the next entry: RuntimeError when the dict changed
\* size, the next send when there is an entry, else the loop over the
\* disconnected clients and the return
BroadcastSendReturns ==
  /\ iteration.at = "send"
  /\ LET c == iteration.to
         ok == sock[c] = "open"
         failed == IF ok THEN iteration.disconnected
                   ELSE iteration.disconnected \cup {c}
         next == NextEntry(iteration.entries, iteration.pos)
     IN /\ sent' = IF ok THEN [sent EXCEPT ![c] = Append(@, iteration.message)]
                   ELSE sent
        /\ IF Cardinality(connected) # iteration.used
             THEN /\ iteration' = [iteration EXCEPT !.at = "raised",
                                                    !.disconnected = failed]
                  /\ UNCHANGED <<connected, client_info>>
             ELSE IF next # 0
               THEN /\ iteration' = [iteration EXCEPT
                                       !.pos = next,
                                       !.to = iteration.entries[next],
                                       !.disconnected = failed]
                    /\ UNCHANGED <<connected, client_info>>
               ELSE /\ iteration' = [iteration EXCEPT
                                       !.at = "done",
                                       !.disconnected = failed,
                                       !.entries = RemoveEntries(@, failed)]
                    /\ connected' = connected \ failed
                    /\ client_info' = client_info \ failed
  /\ UNCHANGED sock
  /\ BroadcastFrame

BroadcastNext ==
  \/ \E c \in Clients : BroadcastRegister(c)
  \/ \E c \in Clients : ClientCloses(c)
  \/ \E c \in Clients : BroadcastUnregister(c)
  \/ BroadcastStart
  \/ BroadcastSendReturns

BroadcastSpec == BroadcastInit /\ [][BroadcastNext]_vars

\* ------------------- the commands of one connection of the backend server
\* websocket_handler: "async for message in websocket" reads the next message
\* when the handling of the previous one has returned
Ping == [kind |-> "ping", query |-> <<>>]

Start(q) == [kind |-> "start", query |-> q]

Commands == {Ping, Start(<<"a">>)}

StartsIn(box) == Cardinality({i \in DOMAIN box : box[i].kind = "start"})

CommandInit == ServerInit /\ entry = "real"

\* the client sends a message while its connection is open
Arrive(cmd) ==
  /\ sock[Requester] = "open" /\ handled + Len(inbox) < MaxMessages
  /\ cmd.kind = "start" => runs + StartsIn(inbox) < MaxRuns
  /\ inbox' = Append(inbox, cmd)
  /\ UNCHANGED <<entry, runs, query, pc, result, calls, failures, elapsed>>
  /\ UNCHANGED graphVars
  /\ UNCHANGED logVars
  /\ UNCHANGED peerVars
  /\ UNCHANGED serverVars
  /\ UNCHANGED <<sample, applied, out, package, prompts, iteration,
                 agent_responses, handlers>>

\* a handler that would start the handling of a ping as a task of its own
TakePingAtOnce ==
  /\ inbox # <<>> /\ Head(inbox).kind = "ping"
  /\ sock[Requester] = "open"
  /\ inbox' = Tail(inbox)
  /\ handled' = handled + 1
  /\ lastMsg' = "ping"
  /\ sent' = send_to_client(sent, Requester, OpenSockets, MessageReply("ping"))
  /\ UNCHANGED <<entry, runs, query, pc, result, calls, failures, elapsed>>
  /\ UNCHANGED graphVars
  /\ UNCHANGED logVars
  /\ UNCHANGED peerVars
  /\ UNCHANGED <<sPc, nIdx, connected, sock, client_info, cots, fault,
                 audience>>
  /\ UNCHANGED <<sample, applied, out, package, prompts, iteration,
                 agent_responses, handlers>>

\* the loop reads a ping: handle_client_message answers with pong
TakePing ==
  /\ sPc = "idle"
  /\ inbox # <<>> /\ Head(inbox).kind = "ping"
  /\ sock[Requester] = "open"
  /\ inbox' = Tail(inbox)
  /\ handled' = handled + 1
  /\ lastMsg' = "ping"
  /\ sent' = send_to_client(sent, Requester, OpenSockets, MessageReply("ping"))
  /\ UNCHANGED <<entry, runs, query, pc, result, calls, failures, elapsed>>
  /\ UNCHANGED graphVars
  /\ UNCHANGED logVars
  /\ UNCHANGED peerVars
  /\ UNCHANGED <<sPc, nIdx, connected, sock, client_info, cots, fault,
                 audience>>
  /\ UNCHANGED <<sample, applied, out, package, prompts, iteration,
                 agent_responses, handlers>>

\* the loop reads a start_analysis: handle_start_analysis, which returns when
\* the run has streamed its results
TakeStart ==
  /\ inbox # <<>> /\ Head(inbox).kind = "start"
  /\ StartAnalysis(Head(inbox).query, TRUE)
  /\ inbox' = Tail(inbox)
  /\ UNCHANGED <<iteration, agent_responses, handlers>>

CommandNext ==
  \/ register_client(Requester)
  \/ \E cmd \in Commands : Arrive(cmd)
  \/ TakePing
  \/ TakeStart
  \/ run_real_analysis_start
  \/ PipelineStep
  \/ Narrate
  \/ NarrationTaskCompleted
  \/ NarrationTimeout
  \/ NarrationEnd
  \/ stream_enhanced_results

CommandSpec == CommandInit /\ [][CommandNext]_vars

\* ------------ concurrent runs on the script server of fontend/websocket_server.py
\* self.agent_responses is an attribute of the server object: every
\* connection's handler reads and writes the same one
StreamPerspectives == <<"baseline", "economic", "environmental", "technological">>

\* what stream_real_results stores and sends, in order: per perspective the
\* three backends, then the judge's synthesis
StreamItems ==
  [i \in 1..12 |->
     [agent |-> AgentOrder[((i - 1) % 3) + 1],
      perspective |-> StreamPerspectives[((i - 1) \div 3) + 1],
      step |-> ((i - 1) \div 3) + 1]]
  \o <<[agent |-> "judge", perspective |-> "synthesis", step |-> 5]>>

\* the query of a client's command; the two clients ask different things
ClientQuery(c) == IF c = Requester THEN <<"a">> ELSE <<"b">>

\* the entry stored for an item of client c's run: the output is what the
\* pipeline returned for c's query
ResponseEntry(c, item) ==
  [perspective |-> item.perspective,
   output |-> <<L(item.perspective, ClientQuery(c)[1])>>]

\* the analysis_complete event of stream_real_results
EvResponses(responses) ==
  [type |-> "analysis_complete", step |-> 0, agent |-> "", text |-> "",
   agent_responses |-> responses]

StreamInit == ServerInit /\ entry = "frontend"

StreamFrame ==
  /\ UNCHANGED <<entry, runs, query, pc, result, calls, failures, elapsed,
                 sPc, nIdx, client_info, cots, handled, lastMsg, fault,
                 audience>>
  /\ UNCHANGED graphVars
  /\ UNCHANGED logVars
  /\ UNCHANGED peerVars
  /\ UNCHANGED <<sample, applied, out, package, prompts, iteration, inbox>>

\* websocket_handler of a new connection: register_client
StreamRegister(c) ==
  /\ sock[c] = "new"
  /\ sock' = [sock EXCEPT ![c] = "open"]
  /\ connected' = connected \cup {c}
  /\ sent' = [sent EXCEPT ![c] = Append(@, EvText("connection_confirmed", c))]
  /\ UNCHANGED <<agent_responses, handlers>>
  /\ StreamFrame

\* handle_start_analysis and run_real_analysis up to the creation of the
\* pipeline task: self.agent_responses is replaced by a new empty dict
StreamStart(c) ==
  /\ sock[c] = "open"
  /\ handlers[c].at \in {"idle", "done"} /\ handlers[c].runs < MaxRuns
  /\ agent_responses' = NoResponses
  /\ sent' = [sent EXCEPT ![c] =
                <<Ev("analysis_started", 0, ""), Ev("step_complete", 1, "")>>
                \o PerAgent("agent_update", 1)]
  /\ handlers' = [handlers EXCEPT ![c] =
                    [at |-> "task", item |-> 0, runs |-> @.runs + 1]]
  /\ UNCHANGED <<sock, connected>>
  /\ StreamFrame

\* provide_realistic_updates has returned and the task's result is there:
\* stream_real_results sends the error of an error record and returns, or
\* begins with the first item
StreamTaskDone(c, ok) ==
  /\ handlers[c].at = "task"
  /\ sent' = [sent EXCEPT ![c] =
                @ \o <<Ev("step_complete", 1, "")>> \o PerAgent("agent_update", 1)
                  \o (IF ok THEN <<>> ELSE <<EvText("error", "Backend error")>>)]
  /\ handlers' = [handlers EXCEPT ![c].at = IF ok THEN "stream" ELSE "done",
                                  ![c].item = IF ok THEN 1 ELSE 0]
  /\ UNCHANGED <<sock, connected, agent_responses>>
  /\ StreamFrame

StreamSteps == 5

\* stream_real_results, the items of one step: each entry is appended to
\* self.agent_responses[agent] and its agent_update is sent (the handler is
\* suspended after every send; the sends of a step are taken together)
StreamItem(c) ==
  /\ handlers[c].at = "stream"
  /\ LET items == SelectSeq(StreamItems,
                            LAMBDA item : item.step = handlers[c].item)
     IN /\ agent_responses' =
             [a \in DOMAIN agent_responses |->
                agent_responses[a]
                \o [i \in 1..Len(SelectSeq(items, LAMBDA item : item.agent = a))
                      |-> ResponseEntry(c, SelectSeq(items,
                                         LAMBDA item : item.agent = a)[i])]]
        /\ sent' = [sent EXCEPT ![c] =
                      @ \o [i \in 1..Len(items) |->
                              Ev("agent_update", items[i].step, items[i].agent)]]
  /\ handlers' = [handlers EXCEPT
                    ![c].at = IF handlers[c].item = StreamSteps
                                THEN "complete" ELSE "stream",
                    ![c].item = @ + 1]
  /\ UNCHANGED <<sock, connected>>
  /\ StreamFrame

\* stream_real_results: comprehensive_results is built with
\* self.agent_responses and sent in the analysis_complete event
StreamComplete(c) ==
  /\ handlers[c].at = "complete"
  /\ sent' = [sent EXCEPT ![c] = Append(@, EvResponses(agent_responses))]
  /\ handlers' = [handlers EXCEPT ![c].at = "done"]
  /\ UNCHANGED <<sock, connected, agent_responses>>
  /\ StreamFrame

StreamNext ==
  \/ \E c \in Clients : StreamRegister(c)
  \/ \E c \in Clients : StreamStart(c)
  \/ \E c \in Clients, ok \in BOOLEAN : StreamTaskDone(c, ok)
  \/ \E c \in Clients : StreamItem(c)
  \/ \E c \in Clients : StreamComplete(c)

StreamSpec == StreamInit /\ [][StreamNext]_vars

\* ------------------------------------------------------------ properties
CountEvents(c, type) ==
  Cardinality({i \in DOMAIN sent[c] : sent[c][i].type = type})

\* the position of the graph: 1..6 for a node, 7 once the last node returned
Position == IF node = "END" THEN Len(NodeOrder) + 1 ELSE NodeIndex(node)

\* node n has returned and its updates are merged into the state
Passed(n) == pc = "graph" /\ node \in Nodes \cup {"END"} /\ Position > NodeIndex(n)

StageJudge(n) ==
  CASE n = "baseline_analysis" -> "initial"
    [] n = "step1_economic" -> "step1"
    [] n = "step2_environmental" -> "step2"
    [] OTHER -> "step3"

\* C1: within a run the nodes are entered in the fixed order baseline, step 1,
\* step 2, step 3, judge evaluation, performance logging, each exactly once
\* (every node before the current one was entered once, no node after it was
\* entered, the current one at most once), and whenever a node after the
\* baseline has issued its calls the judge assessment of the node before it is
\* already recorded in the state; no call is outstanding before a node is entered.
C1_StagesInSequence ==
  /\ pc = "graph" =>
       /\ \A k \in 1..Len(NodeOrder) :
            entered[NodeOrder[k]] =
              (IF k < Position \/ (k = Position /\ phase # "enter") THEN 1 ELSE 0)
       /\ \A k \in 2..5 :
            (k < Position \/ (k = Position /\ phase # "enter")) =>
              st.judge_assessment[StageJudge(NodeOrder[k - 1])] # EmptyText
       /\ phase = "enter" => pending = {}
  /\ (pc = "returned" /\ result.kind = "result") =>
       \A n \in Nodes : entered[n] = 1

\* C1 witness: a run has gone through all six nodes and returned its result
C1_Witness ==
  /\ pc = "returned" /\ result.kind = "result"
  /\ \A n \in Nodes : entered[n] = 1
  /\ calls > 0

\* C2: for a non-empty query the returned result is a RunResult with all five
\* stage flags true, or an error record with none of them set; never some.
C2_FlagsAllOrNone ==
  (result.kind # "none" /\ Strip(query) # <<>>) =>
    \/ result.kind = "result" /\ StageFlags \subseteq result.completion_status
    \/ result.kind = "error" /\ result.completion_status \cap StageFlags = {}

\* C2 witness: a RunResult with all five flags although the final judge call raised
C2_Witness ==
  /\ result.kind = "result"
  /\ StageFlags \subseteq result.completion_status
  /\ "judge" \in raised["judge_evaluation"]

StageFlag(n) ==
  CASE n = "step1_economic" -> "step1_complete"
    [] n = "step2_environmental" -> "step2_complete"
    [] OTHER -> "step3_complete"

PerspectiveNodes == {"step1_economic", "step2_environmental", "step3_technological"}

\* what a backend's slot of a perspective stage holds when its call succeeded
ExpectedStep1(m) ==
  CASE m = "claude" -> PerspectiveResponse(T("economic view"), T("because"), 90)
    [] m = "gpt" ->
         PerspectiveResponse(<<L("", "economic view"), L("", "more detail")>>,
                             EmptyText, 70)
    [] OTHER -> PerspectiveResponse(T("economic view"), T("because"), 80)

ExpectedStep3(m) ==
  [synthesis |-> <<L("", "full synthesis"), L("CONFIDENCE_ASSESSMENT", "fairly sure")>>,
   confidence |-> IF m = "gpt" THEN 150 ELSE 90]

\* C3: once a perspective stage (step 1, 2, 3) has returned, its completion
\* flag is set whoever raised; a backend whose call raised holds the error
\* string as content (confidence 0 in steps 1 and 3), and every other backend
\* holds exactly what it holds when no call of the stage raises.
C3_PerspectiveStageDegrades ==
  \A n \in PerspectiveNodes : Passed(n) =>
    /\ StageFlag(n) \in st.flags
    /\ \A m \in Models :
         LET a == st.analysis[m] IN
         CASE n = "step1_economic" ->
                a.present /\ a.step1_economic =
                  (IF m \in raised[n]
                     THEN PerspectiveResponse(T("Error: boom"), T("Error occurred"), 0)
                     ELSE ExpectedStep1(m))
           [] n = "step2_environmental" ->
                a.step2_economic_environmental =
                  (IF m \in raised[n] THEN T("Error in Step 2 analysis: boom")
                   ELSE T("economic and environmental view"))
           [] OTHER ->
                /\ a.step3_complete_synthesis =
                     (IF m \in raised[n] THEN T("Error in final synthesis: boom")
                      ELSE ExpectedStep3(m).synthesis)
                /\ a.final_confidence =
                     (IF m \in raised[n] THEN 0 ELSE ExpectedStep3(m).confidence)

\* C3 witness: step 3 has returned after one backend's call raised in a
\* perspective stage
C3_Witness ==
  /\ Passed("step3_technological")
  /\ \E n \in PerspectiveNodes : raised[n] \cap Models # {}

\* C4: a RunResult holds a baseline response for each of claude, gpt, grok,
\* with confidence in [0,1]: 0.0 and the error text when that backend's
\* baseline call raised, 0.5 and its answer when it succeeded, whatever the
\* other two backends' calls did.
C4_BaselineResponses ==
  result.kind = "result" =>
    /\ DOMAIN result.baseline_responses = {"claude", "gpt", "grok"}
    /\ \A m \in Models :
         LET b == result.baseline_responses[m] IN
         /\ b.present
         /\ b.confidence \in 0..100
         /\ IF m \in raised["baseline_analysis"]
              THEN b.confidence = 0 /\ b.content = T("Error: boom")
              ELSE b.confidence = 50 /\ b.content = T("answer")

\* C4 witness: a RunResult of a run in which a baseline call raised
C4_Witness ==
  /\ result.kind = "result"
  /\ raised["baseline_analysis"] \cap Models # {}

\* the stage-N field of a ModelAnalysis is populated
Populated(state, n, m) ==
  CASE n = "step1_economic" ->
         state.analysis[m].present /\ state.analysis[m].step1_economic.present
    [] n = "step2_environmental" ->
         state.analysis[m].step2_economic_environmental # EmptyText
    [] OTHER -> state.analysis[m].step3_complete_synthesis # EmptyText

\* C5: a ModelAnalysis's stage-N field is populated if and only if stage N
\* completed without that model's adapter raising: empty after an adapter error.
C5_PopulatedIffNoError ==
  \A n \in PerspectiveNodes : \A m \in Models :
    Populated(st, n, m) <=> (StageFlag(n) \in st.flags /\ m \notin raised[n])

\* C6: with a query that is empty after trimming no node is entered and no
\* backend or judge call is issued, and what the orchestrator returns is an
\* error record.
C6_EmptyQueryNoRun ==
  (Strip(query) = <<>> /\ runs > 0) =>
    /\ pc # "graph"
    /\ calls = 0
    /\ \A n \in Nodes : entered[n] = 0
    /\ pc = "returned" => result.kind = "error"
    /\ (entry = "main" /\ pc = "idle") => result.kind = "error"

\* C6 witness: the orchestrator returned its validation error for a blank query
C6_Witness ==
  /\ pc = "returned" /\ query = <<" ">>
  /\ result.error = "Input validation failed: Query is required"
  /\ calls = 0

\* C7: after start_analysis with a query that is empty after trimming, the
\* requesting client is sent no progress event (step_complete, agent_update,
\* judge_assessment, baseline_response, multi_perspective_update,
\* analysis_complete), in real and in simulation mode.
C7_EmptyQueryNoProgress ==
  (entry \in {"real", "demo"} /\ runs > 0 /\ Strip(query) = <<>>) =>
    \A i \in DOMAIN sent[Requester] : sent[Requester][i].type \notin ProgressTypes

\* an exception escaped the node the graph was at
Escaped == pc = "returned" /\ node \in Nodes

\* C8: when an exception escapes a node, the orchestrator returns an error
\* result with the exception message and the elapsed time, holding no baseline,
\* analysis or judge field.
C8_StageExceptionIsErrorResult ==
  Escaped =>
    /\ result.kind = "error"
    /\ result.error = ErrText
    /\ result.processing_time = elapsed
    /\ result.keys = {"query", "error", "processing_time", "completion_status"}
    /\ result.baseline_responses = NoResult.baseline_responses
    /\ result.multi_perspective_analyses = NoResult.multi_perspective_analyses
    /\ result.judge_evaluation = NoResult.judge_evaluation

\* C8 witness: an exception escaped step 2, after time had passed
C8_Witness ==
  /\ Escaped /\ node = "step2_environmental"
  /\ result.kind = "error" /\ result.processing_time > 0

RecordsOfRun(log, r) == {i \in DOMAIN log : log[i].timestamp = r}

\* C9: when the current run ended with a run-level error result, no logger
\* holds a record of that run, in memory or on file.
C9_ErrorRunNotPersisted ==
  (result.kind = "error" /\ runs > 0) =>
    /\ RecordsOfRun(nodeMemory, runs) = {}
    /\ RecordsOfRun(nodeFile, runs) = {}
    /\ RecordsOfRun(sysMemory, runs) = {}
    /\ RecordsOfRun(sysFile, runs) = {}

\* C10: in real mode a run that returned a RunResult is followed by exactly
\* one analysis_complete to the requesting client: none before the handler
\* has streamed the result, one once the handler is finished.
C10_ExactlyOneComplete ==
  (entry = "real" /\ result.kind = "result") =>
    CountEvents(Requester, "analysis_complete") = (IF sPc = "idle" THEN 1 ELSE 0)

\* C10 witness: the handler has finished a successful run
C10_Witness ==
  /\ entry = "real" /\ result.kind = "result" /\ sPc = "idle"
  /\ CountEvents(Requester, "analysis_complete") = 1

\* the positions of the events of this type in what client c received
EventsAt(c, type) == {i \in DOMAIN sent[c] : sent[c][i].type = type}

Answered ==
  EventsAt(Requester, "analysis_complete") \cup EventsAt(Requester, "error") # {}

\* C12: on the backend server, when every call of the pipeline eventually
\* returns or raises, every start_analysis command is eventually followed by
\* an analysis_complete or an error event to the requesting client, unless
\* that client closed its connection
C12_StartIsAnswered ==
  (lastMsg = "start") ~> (Answered \/ sock[Requester] # "open")

\* a real run was narrated while the pipeline worked, and the connected
\* requester has its terminal event
C12_Witness ==
  /\ entry = "real" /\ lastMsg = "start" /\ sPc = "idle"
  /\ sock[Requester] = "open"
  /\ CountEvents(Requester, "judge_assessment") > 0
  /\ Answered

\* the pipeline task of the run has returned its dict, and a successful one
\* is in the logger's file
RunCompleted ==
  /\ result.kind # "none"
  /\ result.kind = "result" => RecordsOfRun(nodeFile, runs) # {}

\* C13: on the backend server no exception escapes a connection handler; a
\* send to a connection that is closed delivers nothing; the step in which
\* the requesting client closes its connection leaves the pipeline task, the
\* handler's position and the logger as they were; and a real run whose
\* requester has closed its connection still runs to completion, a
\* successful result being in the logger's file
C13_DisconnectDoesNotStopRun ==
  /\ [](fault = {})
  /\ [][sock[Requester] \in {"closed", "gone"} =>
          sent'[Requester] = sent[Requester]]_vars
  /\ [][(sock[Requester] = "open" /\ sock'[Requester] = "closed") =>
          UNCHANGED <<pc, sPc, nIdx, result, graphVars, logVars>>]_vars
  /\ (entry = "real" /\ lastMsg = "start" /\ cots /\ sock[Requester] = "closed")
       ~> RunCompleted

\* the requester closed its connection during a real run: the run was
\* logged, the completion event was absorbed, the handler has ended
C13_Witness ==
  /\ entry = "real" /\ lastMsg = "start" /\ sock[Requester] = "gone"
  /\ result.kind = "result" /\ RecordsOfRun(nodeFile, runs) # {}
  /\ EventsAt(Requester, "analysis_started") # {}
  /\ EventsAt(Requester, "analysis_complete") = {}

\* C14: broadcast_to_all raises no exception when a registered connection is
\* closed, and once a broadcast run has ended every client that is registered
\* and open has every event of the script
C14_BroadcastAbsorbsClosed ==
  /\ "broadcast_to_all" \notin fault
  /\ (entry = "frontend" /\ lastMsg = "start" /\ sPc = "idle"
        /\ Strip(query) # <<>>) =>
       \A c \in audience \cap connected :
         EventsAt(c, "analysis_complete") # {}

\* C15: on the backend server a client that has not connected has received
\* nothing, and the step that accepts the connection of client c sends c the
\* connection_confirmed event carrying c's own identifier, as c's first
\* event, and sends nothing to any other client
C15_ConfirmationFirstAndUnicast ==
  /\ [](\A c \in Clients : sock[c] = "new" => sent[c] = <<>>)
  /\ [][\A c \in Clients :
          (entry \in Backend /\ sock[c] = "new" /\ sock'[c] # "new") =>
            /\ sent'[c] = <<EvText("connection_confirmed", c)>>
            /\ c \in connected' /\ c \in client_info'
            /\ \A d \in Clients \ {c} : sent'[d] = sent[d]]_vars

\* both clients are connected to the backend server and each has its own
\* confirmation, and nothing else
C15_Witness ==
  /\ entry \in Backend
  /\ \A c \in Clients :
       sock[c] = "open" /\ sent[c] = <<EvText("connection_confirmed", c)>>
  /\ sent["c1"] # sent["c2"]

\* what client c received of the run apart from the requester's unicast
\* analysis_started
Broadcasts(c) == SelectSeq(sent[c], LAMBDA e : e.type # "analysis_started")

\* C16: in simulation mode, when both clients were connected at the
\* start_analysis of one of them and have stayed connected, both have received
\* the same broadcast events in the same order at every moment of the run,
\* and the whole script once the run has ended
C16_BroadcastIdentical ==
  (entry = "demo" /\ lastMsg = "start" /\ audience = Clients) =>
    /\ \A c, d \in Clients : Broadcasts(c) = Broadcasts(d)
    /\ sPc = "idle" => \A c \in Clients : Broadcasts(c) = DemoEvents

\* a simulated run ended with both clients connected throughout, and the
\* bystander has the whole script
C16_Witness ==
  /\ entry = "demo" /\ lastMsg = "start" /\ audience = Clients /\ sPc = "idle"
  /\ sent["c2"] = DemoEvents
  /\ sent[Requester] = <<Ev("analysis_started", 0, "")>> \o DemoEvents

\* the step handles a message of this kind from the requesting client
Handles(kind) == lastMsg' = kind /\ handled' = handled + 1

\* C17: on the backend and the frontend server, the step that handles a
\* message of the unknown type "foo" sends the sender exactly one event, an
\* error event that names the type, and leaves the sender's connection open
C17_UnknownTypeIsErrorEvent ==
  [][(entry \in Backend \cup {"frontend"} /\ Handles("unknown")) =>
       /\ sent'[Requester] =
            Append(sent[Requester], EvText("error", "Unknown message type: foo"))
       /\ sock'[Requester] = "open"]_vars

\* C18: on the backend and the simple server, the step that handles a message
\* that is not JSON sends the sender exactly one event, an error event, and
\* leaves the sender's connection open
C18_MalformedIsErrorEvent ==
  [][(entry \in Backend \cup {"simple"} /\ Handles("garbage")) =>
       /\ Len(sent'[Requester]) = Len(sent[Requester]) + 1
       /\ SubSeq(sent'[Requester], 1, Len(sent[Requester])) = sent[Requester]
       /\ sent'[Requester][Len(sent'[Requester])].type = "error"
       /\ sock'[Requester] = "open"]_vars

\* C19: on the backend server the step that handles a ping sends the sender
\* exactly one event, a pong, sends nothing to any other client, and leaves
\* the registry, the client info, the connections and all run state unchanged
C19_PingIsPongOnly ==
  [][(entry \in Backend /\ Handles("ping")) =>
       /\ sent'[Requester] = Append(sent[Requester], EvText("pong", ""))
       /\ \A c \in Clients \ {Requester} : sent'[c] = sent[c]
       /\ UNCHANGED <<connected, client_info, sock, audience, fault>>
       /\ UNCHANGED <<runs, query, pc, sPc, nIdx, cots, result, calls,
                      failures, elapsed>>
       /\ UNCHANGED <<graphVars, logVars>>]_vars

\* the backend server answered a ping of the connected requester
C19_Witness ==
  /\ entry \in Backend /\ lastMsg = "ping" /\ handled > 0
  /\ sock[Requester] = "open"
  /\ sent[Requester] # <<>>
  /\ sent[Requester][Len(sent[Requester])] = EvText("pong", "")

\* the file changed by one record of the current run appended at its end
GrowsByOne(old, new) ==
  /\ Len(new) = Len(old) + 1
  /\ SubSeq(new, 1, Len(old)) = old
  /\ new[Len(new)].timestamp = runs

C21_NoRecordLost ==
  /\ \A k \in 1..peerRuns : RecordsOfRun(nodeFile, 0 - k) # {}
  /\ (result.kind = "result" /\ runs > 0) => RecordsOfRun(nodeFile, runs) # {}

\* the value text of the first line of the sample that carries the tag, as
\* the applied function reads it; "" when no line carries the tag
ScoreText ==
  LET idx == {i \in 1..Len(sample.text) : sample.text[i].tag = applied.tag}
  IN IF idx = {} THEN ""
     ELSE LET v == sample.text[CHOOSE j \in idx : \A k \in idx : j <= k].body
          IN IF applied.function = "judge_extract_score"
               THEN StripBrackets(v) ELSE v

\* the texts that denote a number
NumericTexts == {"0.9", "0.8", "1.5", "-0.2", "0.0"}

Clamped(x) == IF x < 0 THEN 0 ELSE IF x > 100 THEN 100 ELSE x

\* C22: the score either judge score extractor returns lies in [0, 1]; it
\* is the number of the tag's first line clamped to [0, 1] when that line's
\* value denotes a number, and 0.5 when the tag is missing or the value does
\* not denote a number
C22_ScoreClampedOrDefault ==
  applied.function \in {"_extract_judge_score", "judge_extract_score"} =>
    /\ out.number \in 0..100
    /\ out.number = IF ScoreText \in NumericTexts
                      THEN Clamped(ParseFloat(ScoreText))
                      ELSE DefaultScore

\* the value text of the first CONFIDENCE or FINAL_CONFIDENCE line of the
\* sample; "" when there is none
ConfidenceText ==
  LET idx == {i \in 1..Len(sample.text) :
                sample.text[i].tag \in {"CONFIDENCE", "FINAL_CONFIDENCE"}}
  IN IF idx = {} THEN ""
     ELSE sample.text[CHOOSE j \in idx : \A k \in idx : j <= k].body

\* C23: the confidence _extract_confidence returns lies in [0, 1]; it is the
\* number of the first confidence line when that line's value denotes a
\* number within [0, 1], and the default 0.7 when the tag is missing, the
\* value does not denote a number, or the number is outside [0, 1]
C23_ConfidenceInRangeOrDefault ==
  applied.function = "_extract_confidence" =>
    /\ out.number \in 0..100
    /\ out.number = IF /\ ConfidenceText \in NumericTexts
                       /\ ParseFloat(ConfidenceText) \in 0..100
                      THEN ParseFloat(ConfidenceText)
                      ELSE DefaultConfidence

\* C24: the length improvement reported for a backend never exceeds 5.0: it
\* is the ratio of the synthesis length to the baseline length (a baseline
\* of length 0 counted as length 1, so the ratio is always defined) when
\* that ratio is at most 5.0, and 5.0 otherwise; a baseline of length 1
\* and a synthesis of length 10000 give 5.0
C24_LengthImprovementCapped ==
  applied.function = "length_improvement" =>
    LET divisor == IF sample.baseline = 0 THEN 1 ELSE sample.baseline
        capped == sample.synthesis > 5 * divisor
    IN /\ out.number \in 0..500
       /\ capped => out.number = 500
       /\ ~capped =>
            /\ out.number * divisor <= sample.synthesis * 100
            /\ sample.synthesis * 100 < (out.number + 1) * divisor
       /\ (sample.baseline = 1 /\ sample.synthesis = 10000) =>
            out.number = 500

\* the ratio of a 10000 character synthesis to a 1 character baseline has
\* been reported
C24_Witness ==
  /\ applied.function = "length_improvement"
  /\ sample.baseline = 1
  /\ sample.synthesis = 10000
  /\ out.number = 500

\* the field tags of the step 3 response format and of the judge's final
\* evaluation format
Step3FormatTags ==
  {"TECHNOLOGICAL_PERSPECTIVE", "THREE_WAY_COMPARISON", "HOLISTIC_REASONING",
   "COMPREHENSIVE_SYNTHESIS", "CONFIDENCE_ASSESSMENT", "FINAL_CONFIDENCE"}

JudgeFormatTags ==
  {"FINAL_EVALUATION", "AGREEMENTS_DISAGREEMENTS", "BEST_INSIGHTS",
   "FINAL_SYNTHESIS", "METHODOLOGY_ASSESSMENT", "CLAUDE_SCORE", "GPT_SCORE",
   "GROK_SCORE"}

\* the value of a field in a text whose format has the given tags: the rest
\* of the first line tagged with it and the lines after it, up to the first later
\* line tagged with another tag of the format; surrounding blank lines
\* dropped
FieldValue(text, field, format) ==
  LET starts == {i \in 1..Len(text) : text[i].tag = field}
  IN IF starts = {} THEN <<>>
     ELSE LET first == CHOOSE i \in starts : \A k \in starts : i <= k
              ends == {j \in (first + 1)..Len(text) :
                         text[j].tag \in format \ {field}}
              last == IF ends = {} THEN Len(text)
                      ELSE (CHOOSE j \in ends : \A k \in ends : j <= k) - 1
          IN StripText([i \in 1..(last - first + 1) |->
                          LET l == text[first + i - 1]
                          IN IF l.tag = field THEN L("", l.body) ELSE l])

\* C25: the extracted COMPREHENSIVE_SYNTHESIS of a step 3 response ends
\* before the first following line tagged with another field of the step 3
\* format (CONFIDENCE_ASSESSMENT among them), and the extracted
\* FINAL_SYNTHESIS of the judge's response ends before the first following
\* line tagged with another field of the judge's format
\* (METHODOLOGY_ASSESSMENT among them)
C25_FieldEndsAtNextFormatTag ==
  /\ (applied.function = "_extract_section"
        /\ applied.tag = "COMPREHENSIVE_SYNTHESIS") =>
       out.text = FieldValue(sample.text, applied.tag, Step3FormatTags)
  /\ (applied.function = "_extract_judge_section"
        /\ applied.tag = "FINAL_SYNTHESIS") =>
       out.text = FieldValue(sample.text, applied.tag, JudgeFormatTags)

\* the field extractors
SectionExtractors ==
  {"_extract_section", "_extract_judge_section", "judge_extract_section",
   "cot_extract_section"}

\* no line of the sample begins with the requested tag
TagAbsent ==
  \A i \in 1..Len(sample.text) : sample.text[i].tag # applied.tag

\* C26: when no line of the response begins with the requested tag, every
\* field extractor returns the empty text
C26_AbsentTagGivesEmpty ==
  (applied.function \in SectionExtractors /\ TagAbsent) => out.text = <<>>

\* C27: re-parsing the text an extractor returned for a tag, with the same
\* extractor and the same tag, returns that text again
C27_ExtractionIdempotent ==
  /\ applied.function = "_extract_section" =>
       _extract_section(out.text, applied.tag) = out.text
  /\ applied.function = "cot_extract_section" =>
       cot_extract_section(out.text, applied.tag) = out.text

\* the universal guidance of the run: the caller's, or the built-in default
\* when the caller gave none
RunUniversalGuidance == Or(package.universalCot, get_universal_cot_guidance)

\* C28: every prompt sent in step 1, step 2 and step 3 includes the run's
\* universal guidance, and the baseline prompt includes no guidance
C28_UniversalGuidanceInEveryStage ==
  \A i \in 1..Len(prompts) :
    LET prompt == prompts[i]
    IN /\ prompt.stage = "baseline" =>
            prompt.universal = "" /\ prompt.specific = ""
       /\ (prompt.stage \in {"step1", "step2", "step3"} /\ prompt.issued) =>
            prompt.universal = RunUniversalGuidance

\* the stage of the k-th perspective
StageOf(k) == <<"step1", "step2", "step3">>[k]

\* C29: in a run a client starts through a server, the prompt of each
\* perspective's stage uses the guidance the client supplied in
\* perspectiveCots under that perspective's name, and the built-in guidance
\* of the perspective when the client supplied none for it
C29_ClientGuidanceUsed ==
  (package.made /\ package.caller \in {"backend", "frontend"}) =>
    \A k \in 1..3 :
      \A i \in 1..Len(prompts) :
        (prompts[i].stage = StageOf(k) /\ prompts[i].issued) =>
          prompts[i].specific =
            Or(package.perspectiveCots[DefaultPerspectives[k]],
               get_perspective_specific_guidance(DefaultPerspectives[k]))

\* C30: stage k analyses under the k-th perspective name of the call (the
\* caller's override, or economic, environmental, technological by
\* default) and uses the k-th perspective-specific guidance of the call when
\* there is one
C30_StageUsesKthPerspective ==
  package.made =>
    \A k \in 1..3 :
      \A i \in 1..Len(prompts) :
        (prompts[i].stage = StageOf(k) /\ prompts[i].issued) =>
          /\ prompts[i].perspective = package.perspectives[k]
          /\ package.chain_of_thought[k] # "" =>
               prompts[i].specific = package.chain_of_thought[k]

\* the completion events of the real pipeline that reached the requester
CompletionEvents ==
  {i \in EventsAt(Requester, "analysis_complete") :
     "results" \in DOMAIN sent[Requester][i]}

\* C31: the analysis_complete event of a run carries that run's result: its
\* completion flags are the pipeline's five stage flags, and its baseline
\* responses, analyses, stage assessments, quality scores and improvement
\* metrics are the ones the run computed
C31_CompletionCarriesRunResult ==
  \A i \in CompletionEvents :
    LET carried == sent[Requester][i].results
        final_state == result.judge_evaluation
    IN /\ carried.completion_status = result.completion_status \cap StageFlags
       /\ carried.baseline_responses = result.baseline_responses
       /\ carried.multi_perspective_analyses = result.multi_perspective_analyses
       /\ carried.judge_evaluation.judge_assessment = final_state.judge_assessment
       /\ carried.quality_scores = final_state.quality_scores
       /\ carried.improvement_metrics = improvement_metrics(final_state)

\* the earlier outputs of one backend that a stage's prompt may quote, given
\* that backend's own analysis record and nothing else
OwnOutputs(n, own) ==
  CASE n = "step2_environmental" -> <<own.step1_economic.content>>
    [] n = "step3_technological" ->
         <<IF own.present /\ own.step1_economic.present
             THEN own.step1_economic.content ELSE EmptyText,
           IF own.present THEN own.step2_economic_environmental ELSE EmptyText>>
    [] OTHER -> <<>>

\* C32: every prompt sent to a backend quotes that backend's own earlier
\* outputs and nothing else: the step 2 prompt its step 1 analysis, the
\* step 3 prompt its step 1 analysis and its step 2 text; being a function
\* of the backend's own record, it does not depend on what another backend
\* returned
C32_OwnContextOnly ==
  \A i \in 1..Len(prompts) :
    \A m \in Models :
      prompts[i].to[m].issued =>
        prompts[i].to[m].context = OwnOutputs(prompts[i].node, st.analysis[m])

\* the step 3 prompts have been sent, and two backends' prompts quote
\* different earlier outputs
C32_Witness ==
  /\ Len(prompts) = 4
  /\ prompts[3].to["claude"].issued /\ prompts[3].to["gpt"].issued
  /\ prompts[3].to["claude"].context # prompts[3].to["gpt"].context
  /\ prompts[4].to["claude"].context # prompts[4].to["gpt"].context

\* the text a stage stores in backend m's slot of the state
SlotText(n, state, m) ==
  CASE n = "baseline_analysis" -> state.baseline[m].content
    [] n = "step1_economic" -> state.analysis[m].step1_economic.content
    [] n = "step2_environmental" -> state.analysis[m].step2_economic_environmental
    [] OTHER -> state.analysis[m].step3_complete_synthesis

\* the stage stores a result in backend m's slot: the gather result is not
\* an exception and, after step 1, the backend has an analysis to update
Stores(n, state, res, m) ==
  /\ ~res[m].exc
  /\ n \in {"step2_environmental", "step3_technological"} =>
       state.analysis[m].present

\* C33: while a stage's calls resolve, each resolution fills the slot of its
\* own backend only and leaves the state alone; the judge call of the stage
\* is issued only when no call is pending; and the stage's update writes
\* into each backend's slot that backend's own result and nothing else, so
\* the state after the stage does not depend on the order of resolution
C33_ResolutionOrderIrrelevant ==
  [][/\ (phase = "models" /\ phase' = "models" /\ results' # results) =>
          /\ st' = st
          /\ \E m \in pending :
               /\ pending' = pending \ {m}
               /\ \A x \in Models \ {m} : results'[x] = results[x]
     /\ (phase = "models" /\ phase' = "judge") => pending = {}
     /\ (phase = "judge" /\ node \in ModelNodes /\ st' # st) =>
          \A m \in Models :
            IF Stores(node, st, results, m)
              THEN SlotText(node, st', m) = results[m].content
              ELSE /\ st'.baseline[m] = st.baseline[m]
                   /\ st'.analysis[m] = st.analysis[m]]_vars

\* step 2 has completed with different results for two backends, each in
\* its own slot
C33_Witness ==
  /\ node = "step3_technological" /\ phase = "enter"
  /\ st.analysis["claude"].step2_economic_environmental
       # st.analysis["gpt"].step2_economic_environmental
  /\ st.analysis["gpt"].step2_economic_environmental
       = T("Error in Step 2 analysis: boom")

\* C34: once the judge evaluation stage has completed, the state holds for
\* each of the three backends a quality score between 0 and 1, and the
\* score is 0.5 where none could be obtained because the judge call raised
C34_ScoresAfterJudging ==
  Passed("judge_evaluation") =>
    \A m \in Models :
      /\ st.quality_scores[m] \in 0..100
      /\ "judge" \in raised["judge_evaluation"] =>
           st.quality_scores[m] = DefaultScore

\* the entry a perspective stage appends to a reasoning_evolution log
EvolutionEntry(n) ==
  CASE n = "step1_economic" -> "Step 1: Economic analysis completed"
    [] n = "step2_environmental" -> "Step 2: Environmental comparison completed"
    [] OTHER -> "Step 3: Complete synthesis with technological perspective"

EvolutionLog(state, m) == state.analysis[m].reasoning_evolution

\* C35: within a run the reasoning_evolution log of every backend only
\* grows at its end: a step keeps the entries it finds, in their order, and
\* adds at most one, which is the entry of the stage that is running; and
\* once step 3 has completed the log is the step 1, step 2 and step 3
\* entries in that order
C35_EvolutionAppendOnly ==
  /\ [][st' # MultiPerspectiveEnsembleState =>
          \A m \in Models :
            \/ EvolutionLog(st', m) = EvolutionLog(st, m)
            \/ /\ node \in PerspectiveNodes
               /\ EvolutionLog(st', m)
                    = Append(EvolutionLog(st, m), EvolutionEntry(node))]_vars
  /\ [](Passed("step3_technological") =>
          \A m \in Models :
            EvolutionLog(st, m)
              = <<EvolutionEntry("step1_economic"),
                  EvolutionEntry("step2_environmental"),
                  EvolutionEntry("step3_technological")>>)

\* a run has returned its result with the three entries in every log
\* although a backend call failed in step 2
C35_Witness ==
  /\ result.kind = "result"
  /\ raised["step2_environmental"] \cap Models # {}
  /\ \A m \in Models : Len(EvolutionLog(st, m)) = 3

\* the events a step adds to what client c has been sent
NewEvents(c) ==
  IF Len(sent'[c]) > Len(sent[c]) /\ SubSeq(sent'[c], 1, Len(sent[c])) = sent[c]
    THEN SubSeq(sent'[c], Len(sent[c]) + 1, Len(sent'[c]))
    ELSE <<>>

\* the events that end a run of the pipeline: the completion event and the
\* error event sent for an error record
EndsRun(e) == e.type = "analysis_complete" \/ e = Ev("error", 0, "")

\* the event types of the progress narration
NarrationTypes == {"step_complete", "judge_assessment", "agent_update"}

\* what a step of the backend server does to the pipeline task and to the
\* events of the run
NarrationStep ==
  /\ (sPc = "wait" /\ sPc' \in {"narrate", "after_loop"} /\ pc # "returned")
       => (/\ pc' = pc
           /\ pc \in {"called", "graph"}
           /\ <<node, phase, pending, results, st, result>>'
                = <<node, phase, pending, results, st, result>>)
  /\ (sPc \in {"narrate", "after_loop"}
        /\ \E i \in 1..Len(NewEvents(Requester)) :
             NewEvents(Requester)[i].type \in NarrationTypes)
       => pc # "returned"
  /\ \A c \in Clients :
       (sPc # "demo"
          /\ \E i \in 1..Len(NewEvents(c)) : EndsRun(NewEvents(c)[i]))
       => pc = "returned"

\* C36: on the backend server a narration timeout leaves the pipeline task
\* as it is, still running; the narrator sends nothing once the task is
\* done; and outside the scripted simulation, which has no pipeline task,
\* an analysis_complete or pipeline error event is sent only when the
\* pipeline task has returned
C36_NarrationNeverAborts ==
  [][(entry \in Backend) => NarrationStep]_vars

\* a run whose narration timed out at least once has ended with the
\* completion event of its pipeline result
C36_Witness ==
  /\ entry = "real" /\ sPc = "idle" /\ nIdx >= 2
  /\ result.kind = "result"
  /\ sent[Requester] # <<>>
  /\ sent[Requester][Len(sent[Requester])].type = "analysis_complete"

\* C37: a broadcast of the backend server never ends in an exception, and
\* when it has ended every client that was registered when it began, is
\* still registered and has an open connection has the message as its
\* last event
C37_BroadcastSurvivesChurn ==
  /\ iteration.at # "raised"
  /\ iteration.at \in {"done", "raised"} =>
       \A c \in iteration.start :
         (c \in connected /\ sock[c] = "open") =>
           /\ sent[c] # <<>>
           /\ sent[c][Len(sent[c])] = iteration.message

C39_RunEventsOnlyToRequester ==
  entry = "real" =>
    \A c \in Clients \ {Requester} :
      \A i \in 1..Len(sent[c]) : sent[c][i].type = "connection_confirmed"

\* the responses of client c's own run, per agent in the order they are
\* stored
OwnResponses(c) ==
  [a \in DOMAIN NoResponses |->
     LET own == SelectSeq(StreamItems, LAMBDA item : item.agent = a)
     IN [i \in 1..Len(own) |-> ResponseEntry(c, own[i])]]

\* C40: the agent_responses of every analysis_complete event a client is
\* sent are the responses of that client's own run, all of them and no
\* others
C40_OwnResponsesOnly ==
  \A c \in Clients :
    \A i \in 1..Len(sent[c]) :
      sent[c][i].type = "analysis_complete" =>
        sent[c][i].agent_responses = OwnResponses(c)

====
